---------------------------- MODULE Spec2Model ----------------------------
(***************************************************************************)
(* A model of the Standard MIDI File codec of steinarvk/midi:              *)
(*   - the variable-length quantity codec (encodeVarint, readVarint),      *)
(*   - the byte-fed event parser (eventDataParser),                        *)
(*   - the track body loop, the presenter and the event encoder,           *)
(*   - the time-base walk (File.OnEvents, MetaEvent.GetTempo),             *)
(*   - the limit reader (limitreader) and the context reader               *)
(*     (contextreader),                                                    *)
(*   - the file framing layer (parseHeader, parseTrack, parse) and the     *)
(*     file encoder (Header.encode, Track.encode, File.encode).            *)
(*                                                                         *)
(* Bytes are the integers 0..255.  A Go uint64 is a tuple of ten base-128  *)
(* digits, least significant first, the tenth digit holding the one        *)
(* remaining bit (9 * 7 + 1 = 64): shifts by 7 and masks with 0x7f, the    *)
(* only operations the codec applies to 64-bit quantities besides          *)
(* addition, are exact in this representation, overflow included.          *)
(***************************************************************************)
EXTENDS Integers, Sequences, FiniteSets, TLC

VARIABLES
    \* ---- VLQ codec run: encodeVarint then readVarint ----
    vqN,        \* the uint64 handed to encodeVarint
    vqBytes,    \* the bytes encodeVarint returned
    vqResult,   \* what readVarint returned for vqBytes
    vqPc,       \* "encode", "decode", "done"
    \* ---- the event parser fed byte by byte: feed, then finish ----
    parser,     \* the eventDataParser: its registers and its events
    fed,        \* the bytes handed to feedByte so far, in order
    feedResult, \* what the last feedByte returned: [done, err]
    spans,      \* history: for each emitted event, where its bytes lie in fed
    pending,    \* history: where the events still incomplete began in fed
    finished,   \* "no", or what finish() returned: "ok" / "error"
    \* ---- one track through the codec: encodeEvents, parseTrackBody + presentEvent ----
    cdFlow,     \* "write-read": a producer's event list is encoded, then parsed;
                \* "read-write": a track body is parsed, then encoded again
    cdTrack,    \* the producer's event list (write-read)
    cdBody,     \* the track body: [ok, bytes] (encoded, or given)
    cdParsed,   \* what parsing and presenting cdBody gave: [ok, events]
    cdReenc,    \* what encodeEvents gave for the parsed events: [ok, bytes]
    cdPc,       \* "encode", "parse", "reencode", "done"
    \* ---- one raw event presented, and queried for its tempo ----
    pvRaw,      \* the raw event handed to presentEvent
    pvEvent,    \* what presentEvent returned: [ok, evt]
    pvTempo,    \* what GetTempo returned for a presented MetaEvent: [value, ok]
    pvPc,       \* "present", "tempo", "done"
    \* ---- File.OnEvents walking one track ----
    wkFile,     \* the File: [Division, Tracks]
    wkTrackNo,  \* the trackNo argument
    wkI,        \* the loop index: events of the track already handled
    wkSeconds,  \* the seconds accumulator (see OnEventsStep for its unit)
    wkMicros,   \* microsPerBeat
    wkCalls,    \* history: the callback invocations so far
    wkPc,       \* "start", "loop", "returned nil", "returned error"
    \* ---- a limit reader over an underlying reader: a sequence of Read calls ----
    lrUnder,    \* the underlying reader: [data, pos], pos bytes of data consumed
    lrReader,   \* the limitReader: [readLimit, totalBytesRead]
    lrOut,      \* history: the bytes the limit reader has returned, in order
    lrCalls,    \* history: one record per Read call on the limit reader
    \* ---- a whole file: parse (strict or tolerant), then File.encode ----
    flStrict,   \* the strict argument of parse
    flSource,   \* the byte source handed to parse: [data, pos]
    flFile,     \* the File: [Header, Tracks], as parse builds it or a producer gives it
    flI,        \* the loop index of parse: chunks handled so far
    flSawMidiTrack,     \* sawMidiTrack
    flSawNonMidiTrack,  \* sawNonMidiTrack: the first error of a chunk that was no MTrk
    flChunks,   \* history: one record per call of parseTrack
    flResult,   \* what parse returned: [ok, err]
    flEncoded,  \* what File.encode returned: [ok, bytes]
    flPc,       \* "header", "tracks", "parsed", "failed", "encode", "done"
    \* ---- a ContextReader over an underlying reader: a sequence of Read calls ----
    crUnder,            \* the reader under the ContextReader: [data, pos]
    crReader,           \* the ContextReader: [totalBytesRead, lastBytesRead]
    crLast,             \* the last Read on it: what it and the underlying Read returned
    crReads,            \* the number of Read calls so far
    \* ---- one track body handed to parseTrackBody ----
    tbChunks,   \* the time-deltas and events the body is made of, as bytes
    tbCut,      \* how many bytes are missing at the end of the body
    tbBody,     \* the body
    tbResult,   \* what parseTrackBody returned, with the parser it drove
    tbPc        \* "parse", "returned"

varsVarint == <<vqN, vqBytes, vqResult, vqPc>>

varsParser == <<parser, fed, feedResult, spans, pending, finished>>

varsCodec == <<cdFlow, cdTrack, cdBody, cdParsed, cdReenc, cdPc>>

varsPresent == <<pvRaw, pvEvent, pvTempo, pvPc>>

varsWalk == <<wkFile, wkTrackNo, wkI, wkSeconds, wkMicros, wkCalls, wkPc>>

varsLimit == <<lrUnder, lrReader, lrOut, lrCalls>>

varsFile == <<flStrict, flSource, flFile, flI, flSawMidiTrack, flSawNonMidiTrack, flChunks, flResult, flEncoded, flPc>>

varsContext == <<crUnder, crReader, crLast, crReads>>

varsBody == <<tbChunks, tbCut, tbBody, tbResult, tbPc>>

vars == <<vqN, vqBytes, vqResult, vqPc,
          parser, fed, feedResult, spans, pending, finished,
          cdFlow, cdTrack, cdBody, cdParsed, cdReenc, cdPc,
          pvRaw, pvEvent, pvTempo, pvPc,
          wkFile, wkTrackNo, wkI, wkSeconds, wkMicros, wkCalls, wkPc,
          lrUnder, lrReader, lrOut, lrCalls,
          flStrict, flSource, flFile, flI, flSawMidiTrack, flSawNonMidiTrack, flChunks, flResult, flEncoded, flPc,
          crUnder, crReader, crLast, crReads,
          tbChunks, tbCut, tbBody, tbResult, tbPc>>

\* Each specification below runs one part of the codec; the variables of the
\* other parts rest at these values.
IdleVarint == vqN = <<>> /\ vqBytes = <<>> /\ vqResult = <<>> /\ vqPc = "idle"

IdleParser ==
    /\ parser = <<>> /\ fed = <<>> /\ feedResult = <<>>
    /\ spans = <<>> /\ pending = <<>> /\ finished = "idle"

IdleCodec ==
    /\ cdFlow = "idle" /\ cdTrack = <<>> /\ cdBody = <<>>
    /\ cdParsed = <<>> /\ cdReenc = <<>> /\ cdPc = "idle"

IdlePresent == pvRaw = <<>> /\ pvEvent = <<>> /\ pvTempo = <<>> /\ pvPc = "idle"

IdleWalk ==
    /\ wkFile = <<>> /\ wkTrackNo = 0 /\ wkI = 0 /\ wkSeconds = 0
    /\ wkMicros = 0 /\ wkCalls = <<>> /\ wkPc = "idle"

IdleLimit == lrUnder = <<>> /\ lrReader = <<>> /\ lrOut = <<>> /\ lrCalls = <<>>

IdleFile ==
    /\ flStrict = FALSE /\ flSource = <<>> /\ flFile = <<>> /\ flI = 0
    /\ flSawMidiTrack = FALSE /\ flSawNonMidiTrack = "" /\ flChunks = <<>>
    /\ flResult = <<>> /\ flEncoded = <<>> /\ flPc = "idle"

IdleContext ==
    /\ crUnder = [data |-> <<>>, pos |-> 0]
    /\ crReader = [totalBytesRead |-> 0, lastBytesRead |-> <<>>]
    /\ crLast = <<>>
    /\ crReads = 0

IdleBody ==
    tbChunks = <<>> /\ tbCut = 0 /\ tbBody = <<>> /\ tbResult = <<>> /\ tbPc = "idle"

-----------------------------------------------------------------------------
(* Bytes and bit operations on them.                                       *)

Byte == 0..255

\* b & 0x7f
Low7(b) == b % 128

\* (b & 0x80) != 0
HighBit(b) == b >= 128

\* (b & 0xf0) >> 4
HighNibble(b) == b \div 16

\* b & 0x0f
LowNibble(b) == b % 16

RECURSIVE BitOr(_, _)
\* x | y on naturals
BitOr(x, y) ==
    IF x = 0 THEN y
    ELSE IF y = 0 THEN x
    ELSE (IF (x % 2 = 1) \/ (y % 2 = 1) THEN 1 ELSE 0) + 2 * BitOr(x \div 2, y \div 2)

-----------------------------------------------------------------------------
(* uint64 as ten base-128 digits, least significant first.                 *)

U64Digits == 10

U64Zero == [i \in 1..U64Digits |-> 0]

U64IsZero(n) == \A i \in 1..U64Digits : n[i] = 0

\* uint64(x) for a natural that fits a machine word of the checker
U64FromNat(x) ==
    [i \in 1..U64Digits |->
        IF i = 1 THEN x % 128
        ELSE IF i = 2 THEN (x \div 128) % 128
        ELSE IF i = 3 THEN (x \div 16384) % 128
        ELSE IF i = 4 THEN (x \div 2097152) % 128
        ELSE IF i = 5 THEN (x \div 268435456) % 128
        ELSE 0]

\* n << 7: the bits shifted beyond bit 63 are lost
U64Shl7(n) ==
    [i \in 1..U64Digits |->
        IF i = 1 THEN 0
        ELSE IF i = U64Digits THEN n[i - 1] % 2
        ELSE n[i - 1]]

\* n >> 7
U64Shr7(n) == [i \in 1..U64Digits |-> IF i = U64Digits THEN 0 ELSE n[i + 1]]

\* n | uint64(s) for a septet s
U64Or7(n, s) == [n EXCEPT ![1] = BitOr(n[1], s)]

\* n & 0x7f
U64Low7(n) == n[1]

RECURSIVE U64AddFrom(_, _, _, _)
U64AddFrom(a, b, i, carry) ==
    IF i > U64Digits THEN <<>>
    ELSE LET base == IF i = U64Digits THEN 2 ELSE 128
             s == a[i] + b[i] + carry
         IN  <<s % base>> \o U64AddFrom(a, b, i + 1, s \div base)

\* a + b modulo 2^64
U64Add(a, b) == U64AddFrom(a, b, 1, 0)

\* the uint64 values below 2^32
U64Is32(n) == n[5] < 16 /\ \A i \in 6..U64Digits : n[i] = 0

-----------------------------------------------------------------------------
(* encodeVarint                                                            *)

RECURSIVE Septets(_)
\* the first loop of encodeVarint: rrv, the septets of n, least significant first
Septets(n) ==
    IF U64IsZero(n) THEN <<>>
    ELSE <<U64Low7(n)>> \o Septets(U64Shr7(n))

\* a plausible slip: the septets emitted in the order the first loop found them
encodeVarintLeastFirst(n) ==
    IF U64IsZero(n) THEN <<0>>
    ELSE LET rrv == Septets(n)
         IN  [k \in 1..Len(rrv) |->
                 IF k # Len(rrv) THEN rrv[k] + 128 ELSE rrv[k]]

encodeVarint(n) ==
    IF U64IsZero(n) THEN <<0>>
    ELSE LET rrv == Septets(n)
         IN  [k \in 1..Len(rrv) |->
                 LET i == Len(rrv) - k     \* the Go index into rrv
                 IN  IF i # 0 THEN rrv[i + 1] + 128 ELSE rrv[i + 1]]

-----------------------------------------------------------------------------
(* readVarint over a reader: the bytes `data`, of which `pos` are consumed. *)
(* A Read at the end of the data returns io.EOF.                           *)

ErrNone == "nil"
ErrEOF == "io.EOF"
ErrVarintEOF == "EOF in the middle of varint"

RECURSIVE readVarintLoop(_, _, _)
readVarintLoop(data, pos, rv) ==
    IF pos >= Len(data)
    THEN [val |-> U64Zero,
          err |-> IF ~U64IsZero(rv) THEN ErrVarintEOF ELSE ErrEOF,
          pos |-> pos]
    ELSE LET b == data[pos + 1]
             rv2 == U64Or7(rv, Low7(b))
         IN  IF ~HighBit(b)
             THEN [val |-> rv2, err |-> ErrNone, pos |-> pos + 1]
             ELSE readVarintLoop(data, pos + 1, U64Shl7(rv2))

\* a plausible slip: the accumulator shifted by a whole byte
RECURSIVE readVarintShift8Loop(_, _, _)
readVarintShift8Loop(data, pos, rv) ==
    IF pos >= Len(data)
    THEN [val |-> U64Zero,
          err |-> IF ~U64IsZero(rv) THEN ErrVarintEOF ELSE ErrEOF,
          pos |-> pos]
    ELSE LET b == data[pos + 1]
             rv2 == U64Or7(rv, Low7(b))
         IN  IF ~HighBit(b)
             THEN [val |-> rv2, err |-> ErrNone, pos |-> pos + 1]
             ELSE readVarintShift8Loop(data, pos + 1,
                      U64Add(U64Shl7(rv2), U64Shl7(rv2)))

readVarintShift8(data, pos) == readVarintShift8Loop(data, pos, U64Zero)

readVarint(data, pos) == readVarintLoop(data, pos, U64Zero)

-----------------------------------------------------------------------------
(* The VLQ codec run of TestVarintEncoding: encode a number, read it back. *)

\* septet values the inputs are built from
SeptetSamples == {0, 1, 64, 127}

\* inputs below 2^32: four septets and the four bits above them
VarintInputs ==
    { [i \in 1..U64Digits |->
          IF i <= 4 THEN s[i] ELSE IF i = 5 THEN t ELSE 0] :
      s \in [1..4 -> SeptetSamples], t \in 0..15 }

NoResult == [val |-> U64Zero, err |-> "none", pos |-> 0]

InitVarint ==
    /\ vqN \in VarintInputs
    /\ vqBytes = <<>>
    /\ vqResult = NoResult
    /\ vqPc = "encode"
    /\ IdleParser /\ IdleCodec /\ IdlePresent /\ IdleWalk /\ IdleLimit /\ IdleFile /\ IdleContext /\ IdleBody

VarintEncode ==
    /\ vqPc = "encode"
    /\ vqBytes' = encodeVarint(vqN)
    /\ vqPc' = "decode"
    /\ UNCHANGED <<vqN, vqResult>>
    /\ UNCHANGED <<varsParser, varsCodec, varsPresent, varsWalk, varsLimit, varsFile, varsContext, varsBody>>

VarintDecode ==
    /\ vqPc = "decode"
    /\ vqResult' = readVarint(vqBytes, 0)
    /\ vqPc' = "done"
    /\ UNCHANGED <<vqN, vqBytes>>
    /\ UNCHANGED <<varsParser, varsCodec, varsPresent, varsWalk, varsLimit, varsFile, varsContext, varsBody>>

NextVarint == VarintEncode \/ VarintDecode

SpecVarint == InitVarint /\ [][NextVarint]_vars

-----------------------------------------------------------------------------
\* C1: VLQ round-trip: for every u below 2^32, readVarint applied to the bytes
\* of encodeVarint(u) returns u with no error (and consumes all the bytes).
VarintRoundTrip ==
    (vqPc = "done" /\ U64Is32(vqN)) =>
        /\ vqResult.err = ErrNone
        /\ vqResult.val = vqN
        /\ vqResult.pos = Len(vqBytes)

\* a five-byte quantity (2^28 or more) has been encoded and read back
VarintRoundTripWitness ==
    /\ vqPc = "done"
    /\ U64Is32(vqN)
    /\ vqN[5] = 15 /\ vqN[1] = 127
    /\ Len(vqBytes) = 5
    /\ vqResult.val = vqN

-----------------------------------------------------------------------------
(* The event parser: eventDataParser.                                      *)

\* eventType
midiEvent == "midiEvent"
sysexEvent == "sysexEvent"
metaEvent == "metaEvent"
timeDeltaEvent == "timeDeltaEvent"

\* parserState
wantEvent == "wantEvent"
wantMetaType == "wantMetaType"
wantMetaLength == "wantMetaLength"
wantMetaData == "wantMetaData"
wantSysexLength == "wantSysexLength"
wantSysexData == "wantSysexData"

\* the raw event struct; a nil slice and an empty one are both <<>>
RawEvent(kind, typeByte, data) ==
    [kind |-> kind, typeByte |-> typeByte, data |-> data, timeDelta |-> U64Zero]

\* &eventDataParser{}
NewParser ==
    [state |-> wantEvent,
     bytesFed |-> 0,
     runningStatus |-> 0,
     eventData |-> <<>>,
     metaEventType |-> 0,
     metaLength |-> 0,
     currentSysexType |-> 0,
     sysexLength |-> 0,
     sysexData |-> <<>>,
     events |-> <<>>]

\* a plausible slip: every channel-voice event given two data bytes
midiEventSpecsAllTwo ==
    [n \in 8..14 |-> 2]

\* a plausible slip: a spec for every high nibble
midiEventSpecsAnyNibble ==
    [n \in 0..15 |-> IF n \in {12, 13} THEN 1 ELSE 2]

\* a plausible slip: a table whose events carry no data byte
midiEventSpecsNoData ==
    [n \in 8..14 |-> 0]

\* midiEventSpecs: the payload length for each high nibble that has a spec
midiEventSpecs ==
    [n \in 8..14 |-> IF n \in {12, 13} THEN 1 ELSE 2]

\* what the feed operations return: the parser after the call, the stop-point
\* flag and the error ("nil" for none)
FeedReturn(p, done, err) == [p |-> p, done |-> done, err |-> err]

ErrNoSpec == "no MIDI event spec for running status"
ErrTooLong == "MIDI event already too long"
ErrStatusChanged == "running status changed in the middle of event"

\* a plausible slip: the running status loses its channel once an event is out
feedMIDIDataByteDropChannel(p, data) ==
    LET nibble == HighNibble(p.runningStatus)
    IN  IF nibble \notin DOMAIN midiEventSpecs
        THEN FeedReturn(p, FALSE, ErrNoSpec)
        ELSE LET dataLen == midiEventSpecs[nibble]
                 p1 == [p EXCEPT !.eventData = Append(@, data)]
             IN  IF Len(p1.eventData) = dataLen
                 THEN FeedReturn(
                          [p1 EXCEPT !.events = Append(@, RawEvent(midiEvent,
                                                   p.runningStatus, p1.eventData)),
                                     !.eventData = <<>>,
                                     !.runningStatus = 16 * nibble],
                          TRUE, ErrNone)
                 ELSE IF Len(p1.eventData) >= dataLen
                 THEN FeedReturn(p1, FALSE, ErrTooLong)
                 ELSE FeedReturn(p1, FALSE, ErrNone)

feedMIDIDataByte(p, data) ==
    LET nibble == HighNibble(p.runningStatus)
    IN  IF nibble \notin DOMAIN midiEventSpecs
        THEN FeedReturn(p, FALSE, ErrNoSpec)
        ELSE LET dataLen == midiEventSpecs[nibble]
                 p1 == [p EXCEPT !.eventData = Append(@, data)]
             IN  IF Len(p1.eventData) = dataLen
                 THEN FeedReturn(
                          [p1 EXCEPT !.events = Append(@, RawEvent(midiEvent,
                                                   p.runningStatus, p1.eventData)),
                                     !.eventData = <<>>],
                          TRUE, ErrNone)
                 ELSE IF Len(p1.eventData) >= dataLen
                 THEN FeedReturn(p1, FALSE, ErrTooLong)
                 ELSE FeedReturn(p1, FALSE, ErrNone)

\* a plausible slip: the Sysex event put in front of the events already emitted
flushSysexEventFirst(p) ==
    [p EXCEPT !.events = <<RawEvent(sysexEvent, p.currentSysexType, p.sysexData)>> \o @,
              !.state = wantEvent,
              !.sysexData = <<>>,
              !.currentSysexType = 0]

\* a plausible slip: the Sysex payload left in its buffer once emitted
flushSysexEventKeepData(p) ==
    [p EXCEPT !.events = Append(@, RawEvent(sysexEvent, p.currentSysexType, p.sysexData)),
              !.state = wantEvent,
              !.currentSysexType = 0]

\* a plausible slip: the running status forgotten once a Sysex event is out
flushSysexEventResetStatus(p) ==
    [p EXCEPT !.events = Append(@, RawEvent(sysexEvent, p.currentSysexType, p.sysexData)),
              !.state = wantEvent,
              !.sysexData = <<>>,
              !.currentSysexType = 0,
              !.runningStatus = 0]

flushSysexEvent(p) ==
    [p EXCEPT !.events = Append(@, RawEvent(sysexEvent, p.currentSysexType, p.sysexData)),
              !.state = wantEvent,
              !.sysexData = <<>>,
              !.currentSysexType = 0]

feedByteInternal(p, data) ==
    CASE p.state = wantEvent ->
            IF data = 255
            THEN FeedReturn([p EXCEPT !.state = wantMetaType], FALSE, ErrNone)
            ELSE IF data = 240 \/ data = 247
            THEN FeedReturn([p EXCEPT !.currentSysexType = data,
                                      !.state = wantSysexLength,
                                      !.sysexLength = 0,
                                      !.sysexData = <<>>], FALSE, ErrNone)
            ELSE IF HighBit(data)
            THEN IF Len(p.eventData) > 0
                 THEN FeedReturn(p, FALSE, ErrStatusChanged)
                 ELSE FeedReturn([p EXCEPT !.runningStatus = data], FALSE, ErrNone)
            ELSE feedMIDIDataByte(p, data)
      [] p.state = wantMetaType ->
            FeedReturn([p EXCEPT !.metaEventType = data,
                                 !.state = wantMetaLength,
                                 !.metaLength = 0,
                                 !.eventData = <<>>], FALSE, ErrNone)
      [] p.state = wantSysexLength ->
            LET p1 == [p EXCEPT !.sysexLength = BitOr(128 * @, Low7(data))]
                p2 == IF ~HighBit(data) THEN [p1 EXCEPT !.state = wantSysexData] ELSE p1
            IN  IF p2.sysexLength = 0
                THEN FeedReturn(flushSysexEvent(p2), TRUE, ErrNone)
                ELSE FeedReturn(p2, FALSE, ErrNone)
      [] p.state = wantSysexData ->
            LET p1 == [p EXCEPT !.sysexData = Append(@, data)]
            IN  IF Len(p1.sysexData) = p1.sysexLength
                THEN FeedReturn(flushSysexEvent(p1), TRUE, ErrNone)
                ELSE FeedReturn(p1, FALSE, ErrNone)
      [] p.state = wantMetaLength ->
            LET p1 == [p EXCEPT !.metaLength = BitOr(128 * @, Low7(data))]
                p2 == IF ~HighBit(data) THEN [p1 EXCEPT !.state = wantMetaData] ELSE p1
            IN  IF p2.metaLength = 0
                THEN FeedReturn(
                         [p2 EXCEPT !.events = Append(@, RawEvent(metaEvent,
                                                  p2.metaEventType, p2.eventData)),
                                    !.state = wantEvent,
                                    !.eventData = <<>>],
                         TRUE, ErrNone)
                ELSE FeedReturn(p2, FALSE, ErrNone)
      [] p.state = wantMetaData ->
            LET p1 == [p EXCEPT !.eventData = Append(@, data)]
            IN  IF Len(p1.eventData) = p1.metaLength
                THEN FeedReturn(
                         [p1 EXCEPT !.events = Append(@, RawEvent(metaEvent,
                                                  p1.metaEventType, p1.eventData)),
                                    !.state = wantEvent,
                                    !.eventData = <<>>],
                         TRUE, ErrNone)
                ELSE FeedReturn(p1, FALSE, ErrNone)

\* a plausible slip: the byte counted whether or not it was accepted
feedByteCountAlways(p, data) ==
    LET r == feedByteInternal(p, data)
    IN  FeedReturn([r.p EXCEPT !.bytesFed = @ + 1], r.done, r.err)

feedByte(p, data) ==
    LET r == feedByteInternal(p, data)
    IN  IF r.err # ErrNone
        THEN r
        ELSE FeedReturn([r.p EXCEPT !.bytesFed = @ + 1], r.done, ErrNone)

\* finish(): nil ("ok") or an error
\* a plausible slip: only the state examined at the end of the track
finishStateOnly(p) ==
    IF p.state # wantEvent THEN "error" ELSE "ok"

finish(p) ==
    IF p.state # wantEvent THEN "error"
    ELSE IF p.currentSysexType # 0 THEN "error"
    ELSE IF Len(p.eventData) > 0 THEN "error"
    ELSE IF Len(p.sysexData) > 0 THEN "error"
    ELSE "ok"

-----------------------------------------------------------------------------
(* The parser fed byte by byte, as eventDataParser.feed does, then          *)
(* finish().  A failed feedByte leaves the parser usable: the model goes on *)
(* feeding it.                                                              *)

\* the bytes fed: data bytes, a continuation byte, channel-voice status bytes
\* of both payload lengths, an undefined status byte, and the Sysex and Meta
\* introducers
FeedBytes == {0, 2, 60, 128, 144, 193, 240, 241, 247, 255}

\* how many bytes are fed
MaxFed == 5

\* the length registers the model follows (they are Go ints)
MaxLength == 1048576

NoPending == [midiFirst |-> 0, midiOwn |-> FALSE, lpFirst |-> 0]

\* where the event that the byte at index idx completes lies in the input
SpanOf(p, pend, idx) ==
    IF p.state = wantEvent
    THEN [first |-> IF pend.midiFirst = 0 THEN idx ELSE pend.midiFirst,
          last |-> idx, own |-> pend.midiOwn]
    ELSE [first |-> pend.lpFirst, last |-> idx, own |-> TRUE]

\* where the events still incomplete after the byte b at index idx began
NextPending(p, pend, idx, b, r) ==
    LET emitted == Len(r.p.events) > Len(p.events)
    IN  IF r.err # ErrNone THEN pend
        ELSE IF p.state = wantEvent
        THEN IF b \in {240, 247, 255} THEN [pend EXCEPT !.lpFirst = idx]
             ELSE IF HighBit(b) THEN [pend EXCEPT !.midiFirst = idx, !.midiOwn = TRUE]
             ELSE IF emitted THEN [pend EXCEPT !.midiFirst = 0, !.midiOwn = FALSE]
             ELSE [pend EXCEPT !.midiFirst = IF @ = 0 THEN idx ELSE @]
        ELSE IF p.state = wantMetaType /\ Len(p.eventData) > 0
        THEN [pend EXCEPT !.midiFirst = 0, !.midiOwn = FALSE]
        ELSE IF emitted THEN [pend EXCEPT !.lpFirst = 0]
        ELSE pend

Init ==
    /\ parser = NewParser
    /\ fed = <<>>
    /\ feedResult = [done |-> FALSE, err |-> ErrNone]
    /\ spans = <<>>
    /\ pending = NoPending
    /\ finished = "no"
    /\ IdleVarint /\ IdleCodec /\ IdlePresent /\ IdleWalk /\ IdleLimit /\ IdleFile /\ IdleContext /\ IdleBody

\* feedByte(b)
Feed(b) ==
    /\ finished = "no"
    /\ Len(fed) < MaxFed
    /\ parser.metaLength < MaxLength /\ parser.sysexLength < MaxLength
    /\ LET r == feedByte(parser, b)
           idx == Len(fed) + 1
       IN  /\ parser' = r.p
           /\ fed' = Append(fed, b)
           /\ feedResult' = [done |-> r.done, err |-> r.err]
           /\ spans' = IF Len(r.p.events) > Len(parser.events)
                       THEN Append(spans, SpanOf(parser, pending, idx))
                       ELSE spans
           /\ pending' = NextPending(parser, pending, idx, b, r)
    /\ UNCHANGED finished
    /\ UNCHANGED <<varsVarint, varsCodec, varsPresent, varsWalk, varsLimit, varsFile, varsContext, varsBody>>

\* finish()
Finish ==
    /\ finished = "no"
    /\ finished' = finish(parser)
    /\ UNCHANGED <<parser, fed, feedResult, spans, pending>>
    /\ UNCHANGED <<varsVarint, varsCodec, varsPresent, varsWalk, varsLimit, varsFile, varsContext, varsBody>>

Next == (\E b \in FeedBytes : Feed(b)) \/ Finish

Spec == Init /\ [][Next]_vars

\* the emitted event i is the event whose bytes lie at spans[i] in the input
EventAtSpan(i) ==
    LET e == parser.events[i]
        s == spans[i]
    IN  /\ 1 <= s.first /\ s.first <= s.last /\ s.last <= Len(fed)
        /\ e.kind = sysexEvent =>
              /\ fed[s.first] = e.typeByte
              /\ e.data = SubSeq(fed, s.last - Len(e.data) + 1, s.last)
        /\ e.kind = metaEvent =>
              /\ fed[s.first] = 255
              /\ fed[s.first + 1] = e.typeByte
              /\ e.data = SubSeq(fed, s.last - Len(e.data) + 1, s.last)
        /\ e.kind = midiEvent =>
              /\ fed[s.last] = e.data[Len(e.data)]
              /\ fed[s.first] = IF s.own THEN e.typeByte ELSE e.data[1]

EventsAtSpans ==
    /\ Len(spans) = Len(parser.events)
    /\ \A i \in 1..Len(spans) : EventAtSpan(i)

\* C4 as stated: the events are emitted in the order of their first bytes.
FirstByteOrder ==
    EventsAtSpans /\
    \A i, j \in 1..Len(spans) : i < j => spans[i].first < spans[j].first

\* C4: the events are emitted in the order in which their LAST bytes appear in
\* the input; that is the order of their first bytes except that a Sysex or
\* Meta event which begins inside a channel-voice event still incomplete is
\* emitted before that channel-voice event.
CompletionOrder ==
    EventsAtSpans /\
    \A i, j \in 1..Len(spans) : i < j =>
        /\ spans[i].last < spans[j].last
        /\ \/ spans[i].first < spans[j].first
           \/ /\ parser.events[i].kind \in {sysexEvent, metaEvent}
              /\ parser.events[j].kind = midiEvent
              /\ spans[j].first < spans[i].first

\* a Sysex event that began after the status byte and the first data byte of a
\* two-byte channel-voice event was emitted before that event
CompletionOrderWitness ==
    /\ Len(spans) >= 2
    /\ parser.events[1].kind = sysexEvent
    /\ parser.events[2].kind = midiEvent
    /\ Len(parser.events[2].data) = 2
    /\ spans[2].own
    /\ spans[1].first = spans[2].first + 2
    /\ spans[1].last < spans[2].last

\* C5: running-status stability: a channel-voice event that arrives without a
\* status byte right after another channel-voice event has that event's type
\* byte (kind and channel), however many such events follow one another.
RunningStatusStable ==
    EventsAtSpans /\
    \A i \in 1..(Len(spans) - 1) :
        ( /\ parser.events[i].kind = midiEvent
          /\ parser.events[i + 1].kind = midiEvent
          /\ ~spans[i + 1].own ) =>
            parser.events[i + 1].typeByte = parser.events[i].typeByte

\* a status byte with its payload, then two payloads without a status byte,
\* gave three events
RunningStatusStableWitness ==
    /\ Len(spans) = 3
    /\ \A i \in 1..3 : parser.events[i].kind = midiEvent
    /\ spans[1].own /\ ~spans[2].own /\ ~spans[3].own
    /\ spans[2].first = spans[1].last + 1
    /\ spans[3].first = spans[2].last + 1
    /\ parser.events[3].typeByte = fed[spans[1].first]

-----------------------------------------------------------------------------
(* The public events and the presenter.                                    *)

\* SetTempo
SetTempo == 81

\* DefaultTempo
DefaultTempo == 500000

\* MIDIEventType
NoteOn == 144
NoteOff == 128
Aftertouch == 160
ControllerChange == 176
ProgramChange == 192
ChannelPressure == 208
PitchBend == 224

\* TimeDeltaEvent(ticks): the int64 is kept as its 64-bit pattern
TimeDeltaEvent(ticks) == [kind |-> "TimeDelta", ticks |-> ticks]

\* SysexEvent: the framing byte followed by the data
SysexEvent(bytes) == [kind |-> "Sysex", bytes |-> bytes]

MetaEvent(type, data) == [kind |-> "Meta", Type |-> type, Data |-> data]

\* MIDIEvent{}: the zero value; RawNil tells a nil RawData from an empty one
ZeroMIDIEvent ==
    [kind |-> "Midi", Type |-> 0, RawType |-> 0, Channel |-> 0,
     Key |-> 0, Velocity |-> 0, ControllerNumber |-> 0, ControllerValue |-> 0,
     ProgramNumber |-> 0, RawData |-> <<>>, RawNil |-> TRUE]

\* what presentEvent returns: the event, or an error
Presented(evt) == [ok |-> TRUE, evt |-> evt]
PresentError == [ok |-> FALSE, evt |-> <<>>]

\* a plausible slip: the NoteOn case without the velocity-0 rewrite
presentNoteOnAsIs(rv) ==
    IF Len(rv.RawData) # 2 THEN PresentError
    ELSE Presented([rv EXCEPT !.Key = rv.RawData[1], !.Velocity = rv.RawData[2]])

\* case NoteOn of presentEvent
presentNoteOn(rv) ==
    IF Len(rv.RawData) # 2 THEN PresentError
    ELSE LET rv1 == [rv EXCEPT !.Key = rv.RawData[1], !.Velocity = rv.RawData[2]]
         IN  IF rv1.Velocity = 0
             THEN Presented([rv1 EXCEPT !.Type = NoteOff, !.Velocity = 64])
             ELSE Presented(rv1)

presentEvent(evt) ==
    CASE evt.kind = sysexEvent -> Presented(SysexEvent(<<evt.typeByte>> \o evt.data))
      [] evt.kind = metaEvent -> Presented(MetaEvent(evt.typeByte, evt.data))
      [] evt.kind = timeDeltaEvent -> Presented(TimeDeltaEvent(evt.timeDelta))
      [] evt.kind = midiEvent ->
            LET rv == [ZeroMIDIEvent EXCEPT !.Type = 16 * HighNibble(evt.typeByte),
                                            !.RawType = evt.typeByte,
                                            !.Channel = LowNibble(evt.typeByte),
                                            !.RawData = evt.data,
                                            !.RawNil = FALSE]
                n == Len(rv.RawData)
            IN  CASE rv.Type = NoteOn -> presentNoteOn(rv)
                  [] rv.Type \in {NoteOff, Aftertouch} ->
                        IF n # 2 THEN PresentError
                        ELSE Presented([rv EXCEPT !.Key = rv.RawData[1],
                                                  !.Velocity = rv.RawData[2]])
                  [] rv.Type = ControllerChange ->
                        IF n # 2 THEN PresentError
                        ELSE Presented([rv EXCEPT !.ControllerNumber = rv.RawData[1],
                                                  !.ControllerValue = rv.RawData[2]])
                  [] rv.Type = ProgramChange ->
                        IF n # 1 THEN PresentError
                        ELSE Presented([rv EXCEPT !.ProgramNumber = rv.RawData[1]])
                  [] rv.Type = ChannelPressure ->
                        IF n # 1 THEN PresentError
                        ELSE Presented([rv EXCEPT !.Velocity = rv.RawData[1]])
                  [] rv.Type = PitchBend ->
                        IF n # 2 THEN PresentError ELSE Presented(rv)
                  [] OTHER -> Presented(rv)
      [] OTHER -> PresentError

\* what GetTempo returns
TempoReturn(value, ok) == [value |-> value, ok |-> ok]

\* MetaEvent.GetTempo
GetTempo(e) ==
    IF e.Type = SetTempo \/ Len(e.Data) # 3
    THEN TempoReturn(0, FALSE)
    ELSE TempoReturn(BitOr(BitOr(65536 * e.Data[1], 256 * e.Data[2]), e.Data[3]), TRUE)

-----------------------------------------------------------------------------
(* One raw event presented; a presented MetaEvent is asked for its tempo.   *)

\* the data bytes of the raw events presented
PresentDataBytes == {0, 1, 64, 127}

\* the longest payload of a raw channel-voice event presented
MaxRawData == 3

\* the type bytes and data bytes of the raw Meta events presented
MetaTypeSamples == {0, 3, 47, 81, 88, 127}
MetaDataBytes == {0, 5, 139, 227}

\* the longest data of a raw Meta event presented
MaxMetaData == 4

SeqsUpTo(S, n) == UNION { [1..k -> S] : k \in 0..n }

RawInputs ==
    { RawEvent(midiEvent, t, d) : t \in 128..239, d \in SeqsUpTo(PresentDataBytes, MaxRawData) }
    \cup { RawEvent(metaEvent, t, d) : t \in MetaTypeSamples, d \in SeqsUpTo(MetaDataBytes, MaxMetaData) }
    \cup { RawEvent(sysexEvent, t, d) : t \in {240, 247}, d \in SeqsUpTo({1, 247}, 2) }
    \cup { [kind |-> timeDeltaEvent, typeByte |-> 0, data |-> <<>>, timeDelta |-> U64FromNat(n)] :
             n \in {1, 10048} }

NoTempo == [value |-> 0, ok |-> FALSE, asked |-> FALSE]

InitPresent ==
    /\ pvRaw \in RawInputs
    /\ pvEvent = PresentError
    /\ pvTempo = NoTempo
    /\ pvPc = "present"
    /\ IdleVarint /\ IdleParser /\ IdleCodec /\ IdleWalk /\ IdleLimit /\ IdleFile /\ IdleContext /\ IdleBody

Present ==
    /\ pvPc = "present"
    /\ pvEvent' = presentEvent(pvRaw)
    /\ pvPc' = IF pvEvent'.ok /\ pvEvent'.evt.kind = "Meta" THEN "tempo" ELSE "done"
    /\ UNCHANGED <<pvRaw, pvTempo>>
    /\ UNCHANGED <<varsVarint, varsParser, varsCodec, varsWalk, varsLimit, varsFile, varsContext, varsBody>>

QueryTempo ==
    /\ pvPc = "tempo"
    /\ LET t == GetTempo(pvEvent.evt)
       IN  pvTempo' = [value |-> t.value, ok |-> t.ok, asked |-> TRUE]
    /\ pvPc' = "done"
    /\ UNCHANGED <<pvRaw, pvEvent>>
    /\ UNCHANGED <<varsVarint, varsParser, varsCodec, varsWalk, varsLimit, varsFile, varsContext, varsBody>>

NextPresent == Present \/ QueryTempo

SpecPresent == InitPresent /\ [][NextPresent]_vars

\* C6: NoteOn-zero convention: the raw event (0x90|c, [k, 0]) is presented as
\* NoteOff on channel c with key k and velocity 0x40; with a velocity v > 0 it
\* is presented as NoteOn with velocity v.
NoteOnZeroConvention ==
    ( /\ pvPc = "done"
      /\ pvRaw.kind = midiEvent
      /\ HighNibble(pvRaw.typeByte) = 9
      /\ Len(pvRaw.data) = 2 ) =>
        /\ pvEvent.ok
        /\ pvEvent.evt.kind = "Midi"
        /\ pvEvent.evt.Channel = pvRaw.typeByte - 144
        /\ pvEvent.evt.Key = pvRaw.data[1]
        /\ IF pvRaw.data[2] = 0
           THEN pvEvent.evt.Type = NoteOff /\ pvEvent.evt.Velocity = 64
           ELSE pvEvent.evt.Type = NoteOn /\ pvEvent.evt.Velocity = pvRaw.data[2]

\* 0x9f, 0x7f, 0x00 was presented
NoteOnZeroConventionWitness ==
    /\ pvPc = "done"
    /\ pvRaw.kind = midiEvent
    /\ pvRaw.typeByte = 159
    /\ pvRaw.data = <<127, 0>>
    /\ pvEvent.ok
    /\ pvEvent.evt.Type = NoteOff

\* C7: GetTempo returns the big-endian 24-bit value of the data, and true,
\* when Type is 0x51 and the data has exactly 3 bytes; absent otherwise.
TempoQuery ==
    (pvPc = "done" /\ pvTempo.asked) =>
        LET e == pvEvent.evt
        IN  IF e.Type = 81 /\ Len(e.Data) = 3
            THEN /\ pvTempo.ok
                 /\ pvTempo.value = 65536 * e.Data[1] + 256 * e.Data[2] + e.Data[3]
            ELSE ~pvTempo.ok

-----------------------------------------------------------------------------
(* File.OnEvents: the time-base walk over one track.                       *)
(*                                                                         *)
(* seconds is a float64 in the code: seconds += ticks / ticksPerBeat *     *)
(* microsPerBeat / 1e6.  The model keeps the exact sum of ticks *          *)
(* microsPerBeat, of which the code's seconds is the quotient by           *)
(* ticksPerBeat * 1e6 up to floating-point rounding.                       *)

\* float64(v) of a small TimeDeltaEvent
U64ToNat(n) == n[1] + 128 * n[2] + 16384 * n[3] + 2097152 * n[4]

\* the events of the walked tracks
WalkEvents ==
    { TimeDeltaEvent(U64FromNat(0)),
      TimeDeltaEvent(U64FromNat(3)),
      TimeDeltaEvent(U64FromNat(200)),
      MetaEvent(81, <<5, 227, 139>>),
      MetaEvent(81, <<5, 227>>),
      MetaEvent(3, <<0, 1, 2>>),
      MetaEvent(47, <<>>),
      [ZeroMIDIEvent EXCEPT !.Type = NoteOn, !.Key = 60, !.Velocity = 127] }

\* the longest walked track
MaxWalkEvents == 3

\* Header.Division values: SMPTE (negative) and ticks per quarter-note
WalkDivisions == {-32768, -1, 1, 192}

\* a plausible slip: the SMPTE check left out
OnEventsEnterAnyDivision(file, trackNo) ==
    IF trackNo < 0 \/ trackNo >= Len(file.Tracks)
    THEN [pc |-> "returned error", i |-> 0, seconds |-> 0,
          micros |-> DefaultTempo, calls |-> <<>>]
    ELSE [pc |-> "loop", i |-> 0, seconds |-> 0, micros |-> DefaultTempo, calls |-> <<>>]

\* OnEvents up to the loop: the division and track number checks
OnEventsEnter(file, trackNo) ==
    IF file.Division < 0
    THEN [pc |-> "returned error", i |-> 0, seconds |-> 0, micros |-> 0, calls |-> <<>>]
    ELSE IF trackNo < 0 \/ trackNo >= Len(file.Tracks)
    THEN [pc |-> "returned error", i |-> 0, seconds |-> 0,
          micros |-> DefaultTempo, calls |-> <<>>]
    ELSE [pc |-> "loop", i |-> 0, seconds |-> 0, micros |-> DefaultTempo, calls |-> <<>>]

\* the callback invocation recorded: its arguments, the tempo in effect, and
\* whether the callback returned an error
CallRecord(w, evt, failed) ==
    [index |-> w.i + 1, seconds |-> w.seconds, evt |-> evt,
     micros |-> w.micros, failed |-> failed]

\* the switch after the callback
OnEventsAdvance(w, evt) ==
    IF evt.kind = "TimeDelta"
    THEN [w EXCEPT !.seconds = @ + U64ToNat(evt.ticks) * w.micros]
    ELSE IF evt.kind = "Meta"
    THEN LET t == GetTempo(evt)
         IN  IF t.ok THEN [w EXCEPT !.micros = t.value] ELSE w
    ELSE w

\* a plausible slip: the delay added before the callback is invoked
OnEventsIterationDelayFirst(w, evt, failed) ==
    LET w0 == OnEventsAdvance(w, evt)
        w1 == [w0 EXCEPT !.calls = Append(@, CallRecord(w0, evt, failed))]
    IN  IF failed
        THEN [w1 EXCEPT !.pc = "returned error"]
        ELSE [w1 EXCEPT !.i = @ + 1]

\* one iteration of the loop of OnEvents over evt = track.Events[i]; failed
\* tells whether the callback returns an error
OnEventsIteration(w, evt, failed) ==
    LET w1 == [w EXCEPT !.calls = Append(@, CallRecord(w, evt, failed))]
    IN  IF failed
        THEN [w1 EXCEPT !.pc = "returned error"]
        ELSE [OnEventsAdvance(w1, evt) EXCEPT !.i = @ + 1]

WalkState == [pc |-> wkPc, i |-> wkI, seconds |-> wkSeconds,
              micros |-> wkMicros, calls |-> wkCalls]

WalkBecomes(w) ==
    /\ wkPc' = w.pc
    /\ wkI' = w.i
    /\ wkSeconds' = w.seconds
    /\ wkMicros' = w.micros
    /\ wkCalls' = w.calls

InitWalk ==
    /\ wkFile \in { [Division |-> d, Tracks |-> <<t>>] :
                      d \in WalkDivisions, t \in SeqsUpTo(WalkEvents, MaxWalkEvents) }
    /\ wkTrackNo \in {-1, 0, 1}
    /\ wkPc = "start" /\ wkI = 0 /\ wkSeconds = 0 /\ wkMicros = 0 /\ wkCalls = <<>>
    /\ IdleVarint /\ IdleParser /\ IdleCodec /\ IdlePresent /\ IdleLimit /\ IdleFile /\ IdleContext /\ IdleBody

WalkEnter ==
    /\ wkPc = "start"
    /\ WalkBecomes(OnEventsEnter(wkFile, wkTrackNo))
    /\ UNCHANGED <<wkFile, wkTrackNo>>
    /\ UNCHANGED <<varsVarint, varsParser, varsCodec, varsPresent, varsLimit, varsFile, varsContext, varsBody>>

WalkIteration(failed) ==
    /\ wkPc = "loop"
    /\ wkI < Len(wkFile.Tracks[wkTrackNo + 1])
    /\ WalkBecomes(OnEventsIteration(WalkState, wkFile.Tracks[wkTrackNo + 1][wkI + 1], failed))
    /\ UNCHANGED <<wkFile, wkTrackNo>>
    /\ UNCHANGED <<varsVarint, varsParser, varsCodec, varsPresent, varsLimit, varsFile, varsContext, varsBody>>

WalkReturn ==
    /\ wkPc = "loop"
    /\ wkI = Len(wkFile.Tracks[wkTrackNo + 1])
    /\ wkPc' = "returned nil"
    /\ UNCHANGED <<wkFile, wkTrackNo, wkI, wkSeconds, wkMicros, wkCalls>>
    /\ UNCHANGED <<varsVarint, varsParser, varsCodec, varsPresent, varsLimit, varsFile, varsContext, varsBody>>

NextWalk == WalkEnter \/ (\E failed \in BOOLEAN : WalkIteration(failed)) \/ WalkReturn

SpecWalk == InitWalk /\ [][NextWalk]_vars

WalkRejected == wkFile.Division < 0 \/ wkTrackNo < 0 \/ wkTrackNo >= Len(wkFile.Tracks)

RECURSIVE ClaimedMicros(_, _)
\* microsPerBeat after the first n events of a track, as C8 states it
ClaimedMicros(track, n) ==
    IF n = 0 THEN 500000
    ELSE LET e == track[n]
         IN  IF e.kind = "Meta" /\ e.Type = 81 /\ Len(e.Data) = 3
             THEN 65536 * e.Data[1] + 256 * e.Data[2] + e.Data[3]
             ELSE ClaimedMicros(track, n - 1)

\* C8: microsPerBeat starts at 500000 and changes only at a Meta event of type
\* 0x51 with exactly 3 data bytes, to their big-endian value; it is the tempo
\* in effect at every later callback.
TempoOnlyFromSetTempo ==
    (wkPc \in {"loop", "returned nil"}) =>
        /\ wkMicros = ClaimedMicros(wkFile.Tracks[wkTrackNo + 1], wkI)
        /\ \A k \in 1..Len(wkCalls) :
              wkCalls[k].micros = ClaimedMicros(wkFile.Tracks[wkTrackNo + 1], k - 1)

\* C9: the callback is invoked once per event, in track order; the time it is
\* given is the time accumulated by the TimeDelta events strictly before the
\* event; after a callback error the walk returns an error and calls no more.
WalkCallbackProtocol ==
    (wkPc \in {"loop", "returned nil", "returned error"} /\ ~WalkRejected) =>
        LET track == wkFile.Tracks[wkTrackNo + 1]
        IN  /\ Len(wkCalls) <= Len(track)
            /\ \A k \in 1..Len(wkCalls) :
                  /\ wkCalls[k].index = k
                  /\ wkCalls[k].evt = track[k]
                  /\ wkCalls[k].seconds =
                        IF k = 1 THEN 0
                        ELSE wkCalls[k - 1].seconds +
                             (IF track[k - 1].kind = "TimeDelta"
                              THEN U64ToNat(track[k - 1].ticks) * wkCalls[k - 1].micros
                              ELSE 0)
                  /\ wkCalls[k].failed => (k = Len(wkCalls) /\ wkPc = "returned error")
            /\ wkPc = "loop" => Len(wkCalls) = wkI
            /\ wkPc = "returned nil" => Len(wkCalls) = Len(track)
            /\ wkPc = "returned error" =>
                  (Len(wkCalls) > 0 /\ wkCalls[Len(wkCalls)].failed)

\* the callback failed on the second of three events, the first a TimeDelta:
\* it saw the delay of the first, and the third event was never passed
WalkCallbackProtocolWitness ==
    /\ wkPc = "returned error"
    /\ ~WalkRejected
    /\ Len(wkFile.Tracks[wkTrackNo + 1]) = 3
    /\ wkFile.Tracks[wkTrackNo + 1][1].kind = "TimeDelta"
    /\ Len(wkCalls) = 2
    /\ wkCalls[1].seconds = 0
    /\ wkCalls[2].seconds > 0
    /\ wkCalls[2].failed

\* C10: with a negative division, or a track number outside 0..len(Tracks)-1,
\* OnEvents returns an error and never invokes the callback.
WalkRejectsWithoutCallback ==
    (wkPc # "start" /\ WalkRejected) =>
        (wkPc = "returned error" /\ wkCalls = <<>>)

\* OnEvents returned an error for a negative division with a valid track number
WalkRejectsWithoutCallbackWitness ==
    /\ wkPc = "returned error"
    /\ wkFile.Division < 0
    /\ wkTrackNo = 0
    /\ Len(wkFile.Tracks[1]) > 0
    /\ wkCalls = <<>>

-----------------------------------------------------------------------------
(* The event encoder.                                                      *)

\* what EncodeMIDI and encodeEvents return: the bytes, or an error
Encoded(bytes) == [ok |-> TRUE, bytes |-> bytes]
EncodeError == [ok |-> FALSE, bytes |-> <<>>]

\* EncodeMIDI of TimeDeltaEvent, SysexEvent, MetaEvent and MIDIEvent
EncodeMIDI(e) ==
    CASE e.kind = "TimeDelta" -> Encoded(encodeVarint(e.ticks))
      [] e.kind = "Sysex" ->
            IF Len(e.bytes) = 0 THEN EncodeError
            ELSE Encoded(<<e.bytes[1]>> \o encodeVarint(U64FromNat(Len(e.bytes) - 1))
                         \o SubSeq(e.bytes, 2, Len(e.bytes)))
      [] e.kind = "Meta" ->
            Encoded(<<255, e.Type>> \o encodeVarint(U64FromNat(Len(e.Data))) \o e.Data)
      [] e.kind = "Midi" ->
            LET rawType == BitOr(e.Type, e.Channel % 256)
            IN  IF ~e.RawNil THEN Encoded(<<rawType>> \o e.RawData)
                ELSE IF e.Type \in {NoteOn, NoteOff}
                THEN Encoded(<<rawType, e.Key % 256, e.Velocity % 256>>)
                ELSE EncodeError

RECURSIVE encodeEventsFrom(_, _, _, _)
\* the loop of encodeEvents from event i on, with rv and delay as they stand
encodeEventsFrom(evts, i, rv, delay) ==
    IF i > Len(evts) THEN Encoded(rv)
    ELSE IF evts[i].kind = "TimeDelta"
    THEN encodeEventsFrom(evts, i + 1, rv, U64Add(delay, evts[i].ticks))
    ELSE LET encoded == EncodeMIDI(evts[i])
         IN  IF ~encoded.ok THEN EncodeError
             ELSE encodeEventsFrom(evts, i + 1,
                                   rv \o encodeVarint(delay) \o encoded.bytes, U64Zero)

RECURSIVE encodeEventsKeepDelayFrom(_, _, _, _)
encodeEventsKeepDelayFrom(evts, i, rv, delay) ==
    IF i > Len(evts) THEN Encoded(rv)
    ELSE IF evts[i].kind = "TimeDelta"
    THEN encodeEventsKeepDelayFrom(evts, i + 1, rv, U64Add(delay, evts[i].ticks))
    ELSE LET encoded == EncodeMIDI(evts[i])
         IN  IF ~encoded.ok THEN EncodeError
             ELSE encodeEventsKeepDelayFrom(evts, i + 1,
                                   rv \o encodeVarint(delay) \o encoded.bytes, delay)

\* a plausible slip: the pending delay not reset after it is written
encodeEventsKeepDelay(evts) == encodeEventsKeepDelayFrom(evts, 1, <<>>, U64Zero)

RECURSIVE encodeEventsFlushTrailingFrom(_, _, _, _)
encodeEventsFlushTrailingFrom(evts, i, rv, delay) ==
    IF i > Len(evts)
    THEN Encoded(IF U64IsZero(delay) THEN rv ELSE rv \o encodeVarint(delay))
    ELSE IF evts[i].kind = "TimeDelta"
    THEN encodeEventsFlushTrailingFrom(evts, i + 1, rv, U64Add(delay, evts[i].ticks))
    ELSE LET encoded == EncodeMIDI(evts[i])
         IN  IF ~encoded.ok THEN EncodeError
             ELSE encodeEventsFlushTrailingFrom(evts, i + 1,
                                   rv \o encodeVarint(delay) \o encoded.bytes, U64Zero)

\* a plausible slip: the delay left over at the end of the list written out
encodeEventsFlushTrailing(evts) == encodeEventsFlushTrailingFrom(evts, 1, <<>>, U64Zero)

encodeEvents(evts) == encodeEventsFrom(evts, 1, <<>>, U64Zero)

-----------------------------------------------------------------------------
(* The track body loop: parseTrackBody, and parseTrack's presentation of   *)
(* its events.  The reader is the body's bytes and the count consumed.     *)

ErrEventEOF == "EOF in the middle of event"

RECURSIVE readSingleEventLoop(_, _, _, _)
\* the loop of readSingleEvent: [p, pos, err]
readSingleEventLoop(p, data, pos, beganReading) ==
    IF pos >= Len(data)
    THEN [p |-> p, pos |-> pos, err |-> IF beganReading THEN ErrEventEOF ELSE ErrEOF]
    ELSE LET r == feedByte(p, data[pos + 1])
         IN  IF r.err # ErrNone THEN [p |-> r.p, pos |-> pos + 1, err |-> r.err]
             ELSE IF r.done THEN [p |-> r.p, pos |-> pos + 1, err |-> ErrNone]
             ELSE readSingleEventLoop(r.p, data, pos + 1, TRUE)

readSingleEvent(p, data, pos) == readSingleEventLoop(p, data, pos, FALSE)

\* a plausible slip: the time-delta of an event dropped
addTimeDeltaNot(p, dt) == p

addTimeDelta(p, dt) ==
    [p EXCEPT !.events = Append(@, [kind |-> timeDeltaEvent, typeByte |-> 0,
                                    data |-> <<>>, timeDelta |-> dt])]

\* what parseTrackBody returns: the raw events, the parser it drove and the
\* bytes it consumed, or an error
RECURSIVE parseTrackBodyLoop(_, _, _)
parseTrackBodyLoop(p, data, pos) ==
    LET t == readVarint(data, pos)
    IN  IF t.err = ErrEOF
        THEN [ok |-> TRUE, events |-> p.events, p |-> p, pos |-> t.pos]
        ELSE IF t.err # ErrNone
        THEN [ok |-> FALSE, events |-> <<>>, p |-> p, pos |-> t.pos]
        ELSE LET p1 == IF ~U64IsZero(t.val) THEN addTimeDelta(p, t.val) ELSE p
                 r == readSingleEvent(p1, data, t.pos)
             IN  IF r.err # ErrNone
                 THEN [ok |-> FALSE, events |-> <<>>, p |-> r.p, pos |-> r.pos]
                 ELSE parseTrackBodyLoop(r.p, data, r.pos)

RECURSIVE parseTrackBodyAlwaysDeltaLoop(_, _, _)
parseTrackBodyAlwaysDeltaLoop(p, data, pos) ==
    LET t == readVarint(data, pos)
    IN  IF t.err = ErrEOF
        THEN [ok |-> TRUE, events |-> p.events, p |-> p, pos |-> t.pos]
        ELSE IF t.err # ErrNone
        THEN [ok |-> FALSE, events |-> <<>>, p |-> p, pos |-> t.pos]
        ELSE LET r == readSingleEvent(addTimeDelta(p, t.val), data, t.pos)
             IN  IF r.err # ErrNone
                 THEN [ok |-> FALSE, events |-> <<>>, p |-> r.p, pos |-> r.pos]
                 ELSE parseTrackBodyAlwaysDeltaLoop(r.p, data, r.pos)

\* a plausible slip: a TimeDelta event added for a time-delta of zero too
parseTrackBodyAlwaysDelta(data) == parseTrackBodyAlwaysDeltaLoop(NewParser, data, 0)

parseTrackBody(data) == parseTrackBodyLoop(NewParser, data, 0)

RECURSIVE presentAll(_, _)
\* the presentation loop of parseTrack over the first n raw events
presentAll(rawEvents, n) ==
    IF n = 0 THEN [ok |-> TRUE, events |-> <<>>]
    ELSE LET before == presentAll(rawEvents, n - 1)
             presentable == presentEvent(rawEvents[n])
         IN  IF ~before.ok \/ ~presentable.ok THEN [ok |-> FALSE, events |-> <<>>]
             ELSE [ok |-> TRUE, events |-> Append(before.events, presentable.evt)]

\* parseTrack once the chunk body is at hand: the presented events, or an error
parseTrackEvents(body) ==
    LET raw == parseTrackBody(body)
    IN  IF ~raw.ok THEN [ok |-> FALSE, events |-> <<>>]
        ELSE presentAll(raw.events, Len(raw.events))

-----------------------------------------------------------------------------
(* One track through the codec, in both directions.                        *)
(*   write-read: a producer's event list is encoded (encodeEvents), the    *)
(*     bytes are parsed and presented (parseTrack), and encoded again;     *)
(*   read-write: a track body is parsed and presented, and the presented   *)
(*     events are encoded.                                                 *)

\* the event presentEvent gives for a raw channel-voice event
PresentedMidi(typeByte, data) == presentEvent(RawEvent(midiEvent, typeByte, data)).evt

\* a NoteOn or NoteOff as a producer builds it: no RawData
ProducedNote(type, channel, key, velocity) ==
    [ZeroMIDIEvent EXCEPT !.Type = type, !.Channel = channel,
                          !.Key = key, !.Velocity = velocity]

\* the events of the producer's lists: time deltas of one and two VLQ bytes and
\* zero, notes as produced and as presented (velocity 0 among them), the other
\* event kinds, and two events that are not well-formed
TrackEvents ==
    { TimeDeltaEvent(U64FromNat(0)),
      TimeDeltaEvent(U64FromNat(10)),
      TimeDeltaEvent(U64FromNat(200)),
      ProducedNote(NoteOn, 0, 60, 127),
      ProducedNote(NoteOn, 1, 60, 0),
      ProducedNote(NoteOff, 0, 60, 64),
      PresentedMidi(146, <<60, 127>>),
      PresentedMidi(146, <<60, 0>>),
      PresentedMidi(193, <<5>>),
      MetaEvent(47, <<>>),
      MetaEvent(81, <<5, 227, 139>>),
      SysexEvent(<<240, 65, 247>>),
      SysexEvent(<<65, 247>>),
      [ZeroMIDIEvent EXCEPT !.Type = ProgramChange, !.ProgramNumber = 5] }

\* the longest producer's list
MaxTrackEvents == 3

\* the time-deltas of the given track bodies: minimal VLQs of one and two
\* bytes, and one that is not minimal
WireDeltas == { <<0>>, <<10>>, <<129, 72>>, <<128, 10>> }

\* the events of the given track bodies, as bytes: channel-voice events with
\* their status byte (a NoteOn with velocity 0 among them) and one without,
\* Meta and Sysex events
WireEvents ==
    { <<144, 60, 127>>, <<145, 60, 0>>, <<128, 60, 64>>, <<193, 5>>, <<60, 127>>,
      <<255, 47, 0>>, <<255, 81, 3, 5, 227, 139>>,
      <<240, 2, 65, 247>>, <<247, 0>> }

\* the most events in a given track body
MaxBodyEvents == 2

WireChunks == { [delta |-> d, event |-> e] : d \in WireDeltas, e \in WireEvents }

RECURSIVE Flatten(_, _)
\* the bytes of the first n chunks
Flatten(chunks, n) ==
    IF n = 0 THEN <<>>
    ELSE Flatten(chunks, n - 1) \o chunks[n].delta \o chunks[n].event

NotYet == [ok |-> FALSE, bytes |-> <<>>]
NotParsed == [ok |-> FALSE, events |-> <<>>]

InitCodec ==
    /\ \/ /\ cdFlow = "write-read"
          /\ cdTrack \in SeqsUpTo(TrackEvents, MaxTrackEvents)
          /\ cdBody = NotYet
          /\ cdPc = "encode"
       \/ /\ cdFlow = "read-write"
          /\ cdTrack \in SeqsUpTo(WireChunks, MaxBodyEvents)
          /\ cdBody = Encoded(Flatten(cdTrack, Len(cdTrack)))
          /\ cdPc = "parse"
    /\ cdParsed = NotParsed
    /\ cdReenc = NotYet
    /\ IdleVarint /\ IdleParser /\ IdlePresent /\ IdleWalk /\ IdleLimit /\ IdleFile /\ IdleContext /\ IdleBody

\* encodeEvents(track.Events)
CodecEncode ==
    /\ cdPc = "encode"
    /\ cdBody' = encodeEvents(cdTrack)
    /\ cdPc' = IF cdBody'.ok THEN "parse" ELSE "done"
    /\ UNCHANGED <<cdFlow, cdTrack, cdParsed, cdReenc>>
    /\ UNCHANGED <<varsVarint, varsParser, varsPresent, varsWalk, varsLimit, varsFile, varsContext, varsBody>>

\* parseTrackBody and the presentation of its events
CodecParse ==
    /\ cdPc = "parse"
    /\ cdParsed' = parseTrackEvents(cdBody.bytes)
    /\ cdPc' = IF cdParsed'.ok THEN "reencode" ELSE "done"
    /\ UNCHANGED <<cdFlow, cdTrack, cdBody, cdReenc>>
    /\ UNCHANGED <<varsVarint, varsParser, varsPresent, varsWalk, varsLimit, varsFile, varsContext, varsBody>>

\* encodeEvents of the parsed track
CodecReencode ==
    /\ cdPc = "reencode"
    /\ cdReenc' = encodeEvents(cdParsed.events)
    /\ cdPc' = "done"
    /\ UNCHANGED <<cdFlow, cdTrack, cdBody, cdParsed>>
    /\ UNCHANGED <<varsVarint, varsParser, varsPresent, varsWalk, varsLimit, varsFile, varsContext, varsBody>>

NextCodec == CodecEncode \/ CodecParse \/ CodecReencode

SpecCodec == InitCodec /\ [][NextCodec]_vars

RECURSIVE NormalizeFrom(_, _, _)
\* an event list with consecutive TimeDeltas merged and zero TimeDeltas dropped
NormalizeFrom(evts, i, delay) ==
    IF i > Len(evts)
    THEN IF U64IsZero(delay) THEN <<>> ELSE <<TimeDeltaEvent(delay)>>
    ELSE IF evts[i].kind = "TimeDelta"
    THEN NormalizeFrom(evts, i + 1, U64Add(delay, evts[i].ticks))
    ELSE (IF U64IsZero(delay) THEN <<>> ELSE <<TimeDeltaEvent(delay)>>)
         \o <<evts[i]>> \o NormalizeFrom(evts, i + 1, U64Zero)

Normalize(evts) == NormalizeFrom(evts, 1, U64Zero)

\* a producer's event and the event read back are the same event: equal, or,
\* for a note produced without RawData, equal in kind, channel and fields
SameEvent(a, b) ==
    IF a.kind = "Midi" /\ b.kind = "Midi" /\ a.RawNil
    THEN /\ a.Type = b.Type /\ a.Channel = b.Channel
         /\ a.Key = b.Key /\ a.Velocity = b.Velocity
         /\ a.ControllerNumber = b.ControllerNumber
         /\ a.ControllerValue = b.ControllerValue
         /\ a.ProgramNumber = b.ProgramNumber
    ELSE a = b

SameEvents(as, bs) ==
    /\ Len(as) = Len(bs)
    /\ \A i \in 1..Len(as) : SameEvent(as[i], bs[i])

\* an event in a form the codec defines: any TimeDelta and Meta event, a Sysex
\* event framed by 0xF0 or 0xF7, a channel-voice event as presentEvent gives
\* it, or a NoteOn / NoteOff given by channel, key and velocity alone
WellFormed(e) ==
    CASE e.kind = "Sysex" -> Len(e.bytes) > 0 /\ e.bytes[1] \in {240, 247}
      [] e.kind = "Midi" ->
            IF e.RawNil
            THEN /\ e.Type \in {NoteOn, NoteOff}
                 /\ e = ProducedNote(e.Type, e.Channel, e.Key, e.Velocity)
                 /\ e.Channel \in 0..15 /\ e.Key \in 0..127 /\ e.Velocity \in 0..127
            ELSE /\ HighNibble(e.RawType) \in DOMAIN midiEventSpecs
                 /\ Len(e.RawData) = midiEventSpecs[HighNibble(e.RawType)]
                 /\ \A i \in 1..Len(e.RawData) : e.RawData[i] < 128
                 /\ e = PresentedMidi(e.RawType, e.RawData)
      [] OTHER -> TRUE

\* a NoteOn with velocity 0, as produced or as presented from the wire
IsNoteOnZero(e) ==
    /\ e.kind = "Midi"
    /\ \/ e.RawNil /\ e.Type = NoteOn /\ e.Velocity = 0
       \/ ~e.RawNil /\ HighNibble(e.RawType) = 9 /\ Len(e.RawData) = 2 /\ e.RawData[2] = 0

\* the list ends with TimeDelta events that add up to a delay
HasTrailingDelay(evts) ==
    LET n == Normalize(evts)
    IN  Len(n) > 0 /\ n[Len(n)].kind = "TimeDelta"

WriteReadDone == cdFlow = "write-read" /\ cdPc \in {"reencode", "done"} /\ cdBody.ok

\* C2 as stated: every list of well-formed events that encodes is read back
\* equal to itself modulo merged and dropped-zero TimeDeltas.
RoundTripAnyList ==
    (WriteReadDone /\ \A i \in 1..Len(cdTrack) : WellFormed(cdTrack[i])) =>
        /\ cdParsed.ok
        /\ SameEvents(Normalize(cdTrack), Normalize(cdParsed.events))

\* C2: a list of well-formed events that holds no NoteOn with velocity 0 and
\* does not end with a delay is read back equal to itself modulo merged and
\* dropped-zero TimeDeltas.
RoundTrip ==
    ( /\ WriteReadDone
      /\ \A i \in 1..Len(cdTrack) : WellFormed(cdTrack[i]) /\ ~IsNoteOnZero(cdTrack[i])
      /\ ~HasTrailingDelay(cdTrack) ) =>
        /\ cdParsed.ok
        /\ SameEvents(Normalize(cdTrack), Normalize(cdParsed.events))

\* two time deltas were merged in front of a produced NoteOn, and a Sysex
\* event followed: three events went in, three came out, one of them a delay
RoundTripWitness ==
    /\ WriteReadDone
    /\ Len(cdTrack) = 3
    /\ cdTrack[1].kind = "TimeDelta" /\ ~U64IsZero(cdTrack[1].ticks)
    /\ cdTrack[2].kind = "Midi" /\ cdTrack[2].RawNil /\ cdTrack[2].Type = NoteOn
    /\ cdTrack[3].kind = "Sysex" /\ WellFormed(cdTrack[3])
    /\ cdParsed.ok
    /\ cdParsed.events[1] = cdTrack[1]
    /\ Len(cdParsed.events) = 3

\* the given body is a sequence of minimal time-deltas, each followed by an
\* event that carries its own status byte
BodyWellFormed ==
    \A i \in 1..Len(cdTrack) :
        /\ cdTrack[i].delta = encodeVarint(readVarint(cdTrack[i].delta, 0).val)
        /\ HighBit(cdTrack[i].event[1])

BodyHasNoteOnZero ==
    \E i \in 1..Len(cdTrack) :
        /\ HighNibble(cdTrack[i].event[1]) = 9
        /\ cdTrack[i].event[3] = 0

ReadWriteDone == cdFlow = "read-write" /\ cdPc = "done" /\ cdParsed.ok

\* C3 as stated: every accepted body of minimal VLQs and events with their own
\* status byte is reproduced byte for byte, NoteOn with velocity 0 included.
ReencodeExactAnyBody ==
    (ReadWriteDone /\ BodyWellFormed) =>
        (cdReenc.ok /\ cdReenc.bytes = cdBody.bytes)

\* C3: every accepted body of minimal VLQs and events with their own status
\* byte that holds no NoteOn with velocity 0 is reproduced byte for byte.
ReencodeExact ==
    (ReadWriteDone /\ BodyWellFormed /\ ~BodyHasNoteOnZero) =>
        (cdReenc.ok /\ cdReenc.bytes = cdBody.bytes)

\* a body of two events, one a channel-voice event after a two-byte delta,
\* was parsed and written back
ReencodeExactWitness ==
    /\ ReadWriteDone /\ BodyWellFormed /\ ~BodyHasNoteOnZero
    /\ Len(cdTrack) = 2
    /\ Len(cdTrack[1].delta) = 2
    /\ cdTrack[1].event[1] = 144
    /\ cdTrack[2].event[1] = 240
    /\ cdReenc.bytes = cdBody.bytes

-----------------------------------------------------------------------------
\* C13: VLQ encoding form: encodeVarint(0) is the single byte 0x00; for n > 0
\* the output has the minimum number of bytes (the low 7 bits of its first
\* byte are not zero), every byte but the last has the high bit set, the last
\* has it clear, and the septets come most significant first.
VarintEncodingForm ==
    vqPc \in {"decode", "done"} =>
        IF U64IsZero(vqN)
        THEN vqBytes = <<0>>
        ELSE /\ Len(vqBytes) \in 1..U64Digits
             /\ Low7(vqBytes[1]) # 0
             /\ \A k \in 1..Len(vqBytes) : HighBit(vqBytes[k]) <=> k # Len(vqBytes)
             /\ \A k \in 1..Len(vqBytes) :
                    Low7(vqBytes[k]) = vqN[Len(vqBytes) - k + 1]
             /\ \A i \in (Len(vqBytes) + 1)..U64Digits : vqN[i] = 0

\* a quantity of four septets, the second lowest of them zero, has been encoded
VarintEncodingFormWitness ==
    /\ vqPc = "decode"
    /\ Len(vqBytes) = 4
    /\ vqN[4] = 64 /\ vqN[2] = 0 /\ vqN[1] = 127
    /\ vqBytes[1] = 192 /\ vqBytes[3] = 128 /\ vqBytes[4] = 127

-----------------------------------------------------------------------------
(* readVarint applied to arbitrary streams: the bytes a track body or a    *)
(* test hands it, not necessarily the output of encodeVarint.              *)

\* the bytes the streams are built from: final and continuation bytes
VarintStreamBytes == {0, 1, 127, 128, 129}

\* the longest stream
MaxVarintStream == 6

VarintStreams ==
    UNION { [1..n -> VarintStreamBytes] : n \in 0..MaxVarintStream }

InitVarintRead ==
    /\ vqN = U64Zero
    /\ vqBytes \in VarintStreams
    /\ vqResult = NoResult
    /\ vqPc = "decode"
    /\ IdleParser /\ IdleCodec /\ IdlePresent /\ IdleWalk /\ IdleLimit /\ IdleFile /\ IdleContext /\ IdleBody

NextVarintRead == VarintDecode

SpecVarintRead == InitVarintRead /\ [][NextVarintRead]_vars

\* the stream ends immediately after a continuation byte
EndsOnContinuation(data) ==
    /\ Len(data) > 0
    /\ \A k \in 1..Len(data) : HighBit(data[k])

\* C11: truncated VLQ: whenever the stream ends immediately after a
\* continuation byte, whatever the septets read so far (all zero included),
\* readVarint fails with the truncated-varint error, not with plain end of
\* stream and not with a value.
TruncatedVarintRejected ==
    (vqPc = "done" /\ EndsOnContinuation(vqBytes)) =>
        vqResult.err = ErrVarintEOF

\* the quantity has more than 5 bytes: five continuation bytes and a last byte
MoreThanFiveBytes(data) ==
    /\ Len(data) > 5
    /\ \A k \in 1..5 : HighBit(data[k])
    /\ \E k \in 6..Len(data) : ~HighBit(data[k])

\* C12: VLQ overflow: whenever the encoded quantity has more than 5 bytes,
\* readVarint fails and returns no value.
VarintOverflowRejected ==
    (vqPc = "done" /\ MoreThanFiveBytes(vqBytes)) =>
        vqResult.err # ErrNone

-----------------------------------------------------------------------------
\* C19: finish(), called after any sequence of fed bytes, returns success if
\* and only if the parser is in state wantEvent with empty eventData, empty
\* sysexData and currentSysexType 0, and an error otherwise; it changes neither
\* the parser's registers nor the emitted events.
FinishContract ==
    [][ (finished = "no" /\ finished' # "no") =>
            /\ finished' \in {"ok", "error"}
            /\ finished' = "ok" <=>
                   /\ parser.state = wantEvent
                   /\ parser.eventData = <<>>
                   /\ parser.sysexData = <<>>
                   /\ parser.currentSysexType = 0
            /\ parser' = parser ]_vars

\* finish() has refused a parser that is in wantEvent but holds the first data
\* byte of a channel-voice event, after an earlier event was emitted
FinishContractWitness ==
    /\ finished = "error"
    /\ parser.state = wantEvent
    /\ Len(parser.eventData) = 1
    /\ Len(parser.events) = 1
    /\ feedResult.err = ErrNone

-----------------------------------------------------------------------------
(* limitreader: a reader that yields at most readLimit bytes of the reader *)
(* under it.                                                               *)
(*                                                                         *)
(* The underlying reader is any io.Reader over the bytes `data`: asked for *)
(* m > 0 bytes it returns between 1 and m of the bytes left (a             *)
(* bytes.Buffer returns as many as it can, other readers may return        *)
(* fewer), or (0, io.EOF) when none is left; asked for 0 bytes it returns  *)
(* (0, nil).                                                               *)

\* limitreader.New(r, n)
NewLimitReader(n) == [readLimit |-> n, totalBytesRead |-> 0]

\* the byte counts an underlying Read of m bytes may return
UnderlyingCounts(u, m) ==
    IF m = 0 \/ u.pos >= Len(u.data) THEN {0}
    ELSE 1..(IF m < Len(u.data) - u.pos THEN m ELSE Len(u.data) - u.pos)

\* the underlying Read of m bytes that returns n of them: [n, err, bytes, u]
UnderlyingRead(u, m, n) ==
    [n |-> n,
     err |-> IF m > 0 /\ u.pos >= Len(u.data) THEN ErrEOF ELSE ErrNone,
     bytes |-> SubSeq(u.data, u.pos + 1, u.pos + n),
     u |-> [u EXCEPT !.pos = @ + n]]

\* a plausible slip: the whole buffer handed to the underlying reader
limitReaderAskedWhole(r, bufLen) == bufLen

\* the length of the slice limitReader.Read hands to the underlying reader
limitReaderAsked(r, bufLen) ==
    LET remaining == r.readLimit - r.totalBytesRead
    IN  IF bufLen > remaining THEN remaining ELSE bufLen

\* the sizes limitReader.Read with a buffer of bufLen may get from below:
\* none when the limit is used up
limitReaderCounts(r, u, bufLen) ==
    IF r.readLimit - r.totalBytesRead <= 0 THEN {0}
    ELSE UnderlyingCounts(u, limitReaderAsked(r, bufLen))

\* limitReader.Read(buf) with len(buf) = bufLen, the underlying Read returning
\* n bytes: [n, err, bytes, r, u, asked], asked = -1 when the underlying
\* reader is not called
limitReaderRead(r, u, bufLen, n) ==
    LET remaining == r.readLimit - r.totalBytesRead
    IN  IF remaining <= 0
        THEN [n |-> 0, err |-> ErrEOF, bytes |-> <<>>, r |-> r, u |-> u, asked |-> -1]
        ELSE LET asked == limitReaderAsked(r, bufLen)
                 res == UnderlyingRead(u, asked, n)
             IN  [n |-> res.n, err |-> res.err, bytes |-> res.bytes,
                  r |-> [r EXCEPT !.totalBytesRead = @ + res.n],
                  u |-> res.u, asked |-> asked]

\* the data under the limit reader: none, and the ten bytes of "helloworld"
LimitData == { <<>>, <<104, 101, 108, 108, 111, 119, 111, 114, 108, 100>> }

\* the largest limit
MaxLimit == 6

\* the buffer lengths of the Read calls
BufferLengths == {0, 1, 3, 1000}

\* the most Read calls
MaxReads == 4

InitLimit ==
    /\ \E data \in LimitData : lrUnder = [data |-> data, pos |-> 0]
    /\ \E n \in 0..MaxLimit : lrReader = NewLimitReader(n)
    /\ lrOut = <<>>
    /\ lrCalls = <<>>
    /\ IdleVarint /\ IdleParser /\ IdleCodec /\ IdlePresent /\ IdleWalk /\ IdleFile /\ IdleContext /\ IdleBody

\* one Read on the limit reader
LimitRead(bufLen, n) ==
    /\ Len(lrCalls) < MaxReads
    /\ LET res == limitReaderRead(lrReader, lrUnder, bufLen, n)
       IN  /\ lrReader' = res.r
           /\ lrUnder' = res.u
           /\ lrOut' = lrOut \o res.bytes
           /\ lrCalls' = Append(lrCalls,
                  [bufLen |-> bufLen, before |-> lrReader.totalBytesRead,
                   posBefore |-> lrUnder.pos, posAfter |-> res.u.pos,
                   asked |-> res.asked, n |-> res.n, err |-> res.err])
    /\ UNCHANGED <<varsVarint, varsParser, varsCodec, varsPresent, varsWalk, varsFile, varsContext, varsBody>>

NextLimit ==
    \E bufLen \in BufferLengths :
        \E n \in limitReaderCounts(lrReader, lrUnder, bufLen) : LimitRead(bufLen, n)

SpecLimit == InitLimit /\ [][NextLimit]_vars

\* C18: limit window: over any sequence of Read calls a limit reader with
\* limit N returns at most N bytes in total, the first bytes of the underlying
\* data in order; it never asks the underlying reader for a byte beyond the
\* N-th (what it has obtained so far plus what it asks for is at most N: a
\* buffer larger than the remaining budget is truncated to the budget); once N
\* bytes have been consumed every later Read returns 0 bytes and end-of-stream
\* and leaves the underlying reader untouched.
LimitWindow ==
    LET N == lrReader.readLimit
    IN  /\ Len(lrOut) <= N
        /\ lrOut = SubSeq(lrUnder.data, 1, Len(lrOut))
        /\ lrUnder.pos = Len(lrOut)
        /\ lrReader.totalBytesRead = Len(lrOut)
        /\ \A k \in 1..Len(lrCalls) :
               LET c == lrCalls[k]
               IN  IF c.before >= N
                   THEN /\ c.n = 0 /\ c.err = ErrEOF
                        /\ c.asked = -1 /\ c.posAfter = c.posBefore
                   ELSE /\ c.asked = (IF c.bufLen > N - c.before
                                      THEN N - c.before ELSE c.bufLen)
                        /\ c.before + c.asked <= N
                        /\ c.n <= c.asked

\* a Read with a 1000-byte buffer was truncated to the 2 bytes left of the
\* budget, and the Read after it met end-of-stream with data left below
LimitWindowWitness ==
    /\ Len(lrCalls) >= 3
    /\ lrCalls[2].bufLen = 1000 /\ lrCalls[2].asked = 2 /\ lrCalls[2].n = 2
    /\ lrCalls[3].err = ErrEOF /\ lrCalls[3].asked = -1
    /\ lrUnder.pos < Len(lrUnder.data)

-----------------------------------------------------------------------------
(* The file framing layer: parseHeader, parseTrack, skipSizedChunk.        *)
(*                                                                         *)
(* The byte source is a bytes.Buffer, as in TestParseFullFile: [data, pos] *)
(* with pos bytes consumed; its Read returns as many of the bytes asked    *)
(* for as are left, and (0, io.EOF) when none is left.                     *)

TagMThd == <<77, 84, 104, 100>>
TagMTrk == <<77, 84, 114, 107>>

ErrUnexpectedEOF == "unexpected EOF"
ErrLiteralRead == "expected literal, read failed"
ErrLiteralOther == "expected literal, read other bytes"
ErrChunkRead == "expected chunk, read failed"
ErrReadError == "read error"
ErrTrackBody == "error in track body"
ErrPresent == "error presenting event"

\* the bytes left in the source
Avail(src) == Len(src.data) - src.pos

\* bytes.Buffer.Read with a buffer of m bytes: [n, err, bytes, u]
bufferRead(src, m) ==
    UnderlyingRead(src, m, IF m < Avail(src) THEN m ELSE Avail(src))

\* binary.Read of a fixed-size value of m bytes (io.ReadFull): [err, bytes, u]
binaryRead(src, m) ==
    IF Avail(src) >= m
    THEN [err |-> ErrNone, bytes |-> SubSeq(src.data, src.pos + 1, src.pos + m),
          u |-> [src EXCEPT !.pos = @ + m]]
    ELSE [err |-> IF Avail(src) = 0 THEN ErrEOF ELSE ErrUnexpectedEOF,
          bytes |-> <<>>, u |-> [src EXCEPT !.pos = Len(src.data)]]

\* big-endian unsigned values
BE16(b) == 256 * b[1] + b[2]
BE32(b) == 16777216 * b[1] + 65536 * b[2] + 256 * b[3] + b[4]

\* the int16 with the bits of the uint16 v
Int16(v) == IF v >= 32768 THEN v - 65536 ELSE v

\* readLiteralExpecting(r, s): [err, u]
readLiteralExpecting(src, s) ==
    LET r == bufferRead(src, Len(s))
    IN  [err |-> IF r.err # ErrNone \/ r.n # Len(s) THEN ErrLiteralRead
                 ELSE IF r.bytes # s THEN ErrLiteralOther
                 ELSE ErrNone,
         u |-> r.u]

\* parseSizedChunk(r): [err, bytes, u]
parseSizedChunk(src) ==
    LET len == binaryRead(src, 4)
    IN  IF len.err # ErrNone THEN [err |-> len.err, bytes |-> <<>>, u |-> len.u]
        ELSE LET r == bufferRead(len.u, BE32(len.bytes))
             IN  IF r.err # ErrNone \/ r.n # BE32(len.bytes)
                 THEN [err |-> ErrChunkRead, bytes |-> <<>>, u |-> r.u]
                 ELSE [err |-> ErrNone, bytes |-> r.bytes, u |-> r.u]

\* parseHeader(r): [err, hdr, u]
parseHeader(src) ==
    LET lit == readLiteralExpecting(src, TagMThd)
        chunk == parseSizedChunk(lit.u)
    IN  IF lit.err # ErrNone THEN [err |-> lit.err, hdr |-> <<>>, u |-> lit.u]
        ELSE IF chunk.err # ErrNone THEN [err |-> chunk.err, hdr |-> <<>>, u |-> chunk.u]
        ELSE IF Len(chunk.bytes) < 6
        THEN [err |-> IF Len(chunk.bytes) = 0 THEN ErrEOF ELSE ErrUnexpectedEOF,
              hdr |-> <<>>, u |-> chunk.u]
        ELSE [err |-> ErrNone,
              hdr |-> [Format |-> BE16(SubSeq(chunk.bytes, 1, 2)),
                       NumberOfTracks |-> BE16(SubSeq(chunk.bytes, 3, 4)),
                       Division |-> Int16(BE16(SubSeq(chunk.bytes, 5, 6)))],
              u |-> chunk.u]

\* the buffer of onReadBytes
bufSz == 4096

RECURSIVE onReadBytes(_, _)
\* onReadBytes(r, n, nil): [err, u]
onReadBytes(src, remaining) ==
    IF remaining <= 0 THEN [err |-> ErrNone, u |-> src]
    ELSE LET n == IF bufSz > remaining THEN remaining ELSE bufSz
             r == bufferRead(src, n)
         IN  IF r.err # ErrNone THEN [err |-> ErrReadError, u |-> r.u]
             ELSE onReadBytes(r.u, remaining - n)

\* a plausible slip: the length read, the body left where it is
skipSizedChunkLengthOnly(src) ==
    LET len == binaryRead(src, 4)
    IN  [err |-> len.err, u |-> len.u]

\* skipSizedChunk(r): [err, u]
skipSizedChunk(src) ==
    LET len == binaryRead(src, 4)
    IN  IF len.err # ErrNone THEN [err |-> len.err, u |-> len.u]
        ELSE onReadBytes(len.u, BE32(len.bytes))

\* the body parseTrackBody gets through the limit reader of readSizedChunk:
\* read a byte at a time, it ends after `length` bytes or where the source ends
LimitedBody(src, length) ==
    SubSeq(src.data, src.pos + 1,
           IF length < Avail(src) THEN src.pos + length ELSE Len(src.data))

\* parseTrack is written as a chain of steps, each taking the outcome of the
\* step before it: [trk, wasMidiTrack, err, u]

\* lines 226-241: the body parsed (raw) and its events presented (shown)
parseTrackPresented(u, raw, shown) ==
    IF ~raw.ok
    THEN [trk |-> <<>>, wasMidiTrack |-> TRUE, err |-> ErrTrackBody,
          u |-> [u EXCEPT !.pos = @ + raw.pos]]
    ELSE IF ~shown.ok
    THEN [trk |-> <<>>, wasMidiTrack |-> TRUE, err |-> ErrPresent,
          u |-> [u EXCEPT !.pos = @ + raw.pos]]
    ELSE [trk |-> shown.events, wasMidiTrack |-> TRUE, err |-> ErrNone,
          u |-> [u EXCEPT !.pos = @ + raw.pos]]

parseTrackParsed(u, raw) ==
    parseTrackPresented(u, raw, presentAll(raw.events, Len(raw.events)))

\* lines 221-226: readSizedChunk has read the length (len)
parseTrackSized(len) ==
    IF len.err # ErrNone
    THEN [trk |-> <<>>, wasMidiTrack |-> TRUE, err |-> len.err, u |-> len.u]
    ELSE parseTrackParsed(len.u, parseTrackBody(LimitedBody(len.u, BE32(len.bytes))))

\* lines 213-216: the tag was not MTrk (lit), the chunk has been skipped (skip)
parseTrackSkipped(lit, skip) ==
    [trk |-> <<>>, wasMidiTrack |-> FALSE,
     err |-> IF skip.err # ErrNone THEN skip.err ELSE lit.err,
     u |-> skip.u]

\* line 212: the tag has been read (lit)
parseTrackTagged(lit) ==
    IF lit.err # ErrNone
    THEN parseTrackSkipped(lit, skipSizedChunk(lit.u))
    ELSE parseTrackSized(binaryRead(lit.u, 4))

\* parseTrack(r)
parseTrack(src) == parseTrackTagged(readLiteralExpecting(src, TagMTrk))

-----------------------------------------------------------------------------
(* parse: the loop over the chunks the header announces.                   *)

NoFile == [Header |-> <<>>, Tracks |-> <<>>]

\* what parse returns besides the File: success, or the error and its cause
ParseOk == [ok |-> TRUE, kind |-> "nil", cause |-> ErrNone]
ParseError(kind, cause) == [ok |-> FALSE, kind |-> kind, cause |-> cause]
ErrHeader == "error parsing header"
ErrNonMidiTrack == "saw non-MIDI track"
ErrParsingTrack == "error parsing track"
ErrNoMidiTracks == "no MIDI tracks found"

\* the variables of parse: [pc, file, i, sawMidiTrack, sawNonMidiTrack, result, u]
\* and the `failed` state every error return leads to
ParseFailed(st, kind, cause, u) ==
    [st EXCEPT !.pc = "failed", !.file = NoFile,
               !.result = ParseError(kind, cause), !.u = u]

\* a plausible slip: a failed MTrk chunk treated as a chunk to skip
parseIterationSkipFailed(st, strict, t) ==
    IF ~t.wasMidiTrack \/ t.err # ErrNone
    THEN IF strict
         THEN ParseFailed(st, ErrNonMidiTrack, t.err, t.u)
         ELSE [st EXCEPT !.sawNonMidiTrack = IF @ = ErrNone THEN t.err ELSE @,
                         !.sawMidiTrack = @ \/ t.wasMidiTrack,
                         !.i = @ + 1, !.u = t.u]
    ELSE [st EXCEPT !.sawMidiTrack = TRUE,
                    !.file.Tracks = Append(@, t.trk),
                    !.i = @ + 1, !.u = t.u]

\* one iteration of the loop of parse, t being what parseTrack(r) returned
parseIteration(st, strict, t) ==
    IF ~t.wasMidiTrack
    THEN IF strict
         THEN ParseFailed(st, ErrNonMidiTrack, t.err, t.u)
         ELSE [st EXCEPT !.sawNonMidiTrack = IF @ = ErrNone THEN t.err ELSE @,
                         !.i = @ + 1, !.u = t.u]
    ELSE IF t.err # ErrNone
    THEN [ParseFailed(st, ErrParsingTrack, t.err, t.u) EXCEPT !.sawMidiTrack = TRUE]
    ELSE [st EXCEPT !.sawMidiTrack = TRUE,
                    !.file.Tracks = Append(@, t.trk),
                    !.i = @ + 1, !.u = t.u]

\* a plausible slip: the File returned whether or not an MTrk chunk was seen
parseAfterLoopAnyFile(st) ==
    [st EXCEPT !.pc = "parsed", !.result = ParseOk]

\* parse after its loop
parseAfterLoop(st) ==
    IF ~st.sawMidiTrack
    THEN ParseFailed(st, ErrNoMidiTracks, st.sawNonMidiTrack, st.u)
    ELSE [st EXCEPT !.pc = "parsed", !.result = ParseOk]

-----------------------------------------------------------------------------
(* Header.encode, Track.encode, File.encode                                *)

U16Bytes(v) == <<(v \div 256) % 256, v % 256>>
U32Bytes(v) == <<v \div 16777216, (v \div 65536) % 256, (v \div 256) % 256, v % 256>>

\* Header.encode: the 14 bytes of the header chunk
HeaderEncode(h) ==
    TagMThd \o U32Bytes(6) \o U16Bytes(h.Format) \o U16Bytes(h.NumberOfTracks)
            \o U16Bytes((h.Division + 65536) % 65536)

\* Track.encode: [ok, bytes]
TrackEncode(events) ==
    LET data == encodeEvents(events)
    IN  IF ~data.ok THEN EncodeError
        ELSE Encoded(TagMTrk \o U32Bytes(Len(data.bytes)) \o data.bytes)

RECURSIVE FileEncodeSkipFailedFrom(_, _, _)
\* a plausible slip: a track that fails to encode left out of the output
FileEncodeSkipFailedFrom(f, i, buf) ==
    IF i > Len(f.Tracks) THEN Encoded(buf)
    ELSE LET data == TrackEncode(f.Tracks[i])
         IN  FileEncodeSkipFailedFrom(f, i + 1, buf \o data.bytes)

FileEncodeSkipFailed(f) == FileEncodeSkipFailedFrom(f, 1, HeaderEncode(f.Header))

RECURSIVE FileEncodeFrom(_, _, _)
\* the loop of File.encode from track i on
FileEncodeFrom(f, i, buf) ==
    IF i > Len(f.Tracks) THEN Encoded(buf)
    ELSE LET data == TrackEncode(f.Tracks[i])
         IN  IF ~data.ok THEN EncodeError
             ELSE FileEncodeFrom(f, i + 1, buf \o data.bytes)

\* File.encode: [ok, bytes]
FileEncode(f) == FileEncodeFrom(f, 1, HeaderEncode(f.Header))

-----------------------------------------------------------------------------
(* A file through parse and File.encode, and a producer's File through     *)
(* File.encode.                                                            *)

\* a chunk as bytes: tag, big-endian length, body
Chunk(tag, body) == tag \o U32Bytes(Len(body)) \o body

TagOther == <<88, 88, 88, 88>>

\* header chunks announcing 0, 1 and 2 tracks, and one whose body is too short
FileHeaders ==
    { Chunk(TagMThd, <<0, 1, 0, n, 0, 192>>) : n \in 0..2 }
        \cup { Chunk(TagMThd, <<0, 1, 0, 1>>) }

\* the chunks after the header: MTrk chunks with an end-of-track event, with a
\* note, with no event and with half an event; chunks of an unknown kind with
\* three bytes, with no byte, and with the bytes of an empty MTrk chunk inside
FileChunks ==
    { Chunk(TagMTrk, <<0, 255, 47, 0>>),
      Chunk(TagMTrk, <<10, 144, 60, 127>>),
      Chunk(TagMTrk, <<>>),
      Chunk(TagMTrk, <<0, 144, 60>>),
      Chunk(TagOther, <<10, 11, 12>>),
      Chunk(TagOther, <<>>),
      Chunk(TagOther, Chunk(TagMTrk, <<>>)) }

\* the most chunks after the header
MaxFileChunks == 3

\* the bytes missing at the end of a file that was cut short
FileCuts == {0, 1, 4, 6}

RECURSIVE Concat(_, _)
\* the first n of the byte strings, one after the other
Concat(parts, n) == IF n = 0 THEN <<>> ELSE Concat(parts, n - 1) \o parts[n]

FileInputs ==
    { LET whole == h \o Concat(chunks, Len(chunks))
      IN  SubSeq(whole, 1, IF Len(whole) > cut THEN Len(whole) - cut ELSE 0) :
      h \in FileHeaders,
      chunks \in UNION { [1..n -> FileChunks] : n \in 0..MaxFileChunks },
      cut \in FileCuts }

\* the tracks of a producer's File: notes as SimpleWriter.Play appends them,
\* presented events with their raw data, and an event EncodeMIDI cannot encode
ProducerTracks ==
    { <<>>,
      <<ProducedNote(NoteOn, 0, 60, 127), TimeDeltaEvent(U64FromNat(200)),
        ProducedNote(NoteOff, 0, 60, 127)>>,
      <<PresentedMidi(193, <<5>>), MetaEvent(47, <<>>)>>,
      <<TimeDeltaEvent(U64FromNat(10)), ProducedNote(NoteOn, 3, 60, 127),
        [ZeroMIDIEvent EXCEPT !.Type = ProgramChange, !.Channel = 3, !.ProgramNumber = 5]>>,
      <<[ZeroMIDIEvent EXCEPT !.Type = PitchBend]>> }

\* the most tracks of a producer's File
MaxProducerTracks == 2

ProducerFiles ==
    { [Header |-> [Format |-> 0, NumberOfTracks |-> n, Division |-> d], Tracks |-> trks] :
      n \in 1..2, d \in {192, -25},
      trks \in UNION { [1..k -> ProducerTracks] : k \in 0..MaxProducerTracks } }

NoParseResult == [ok |-> FALSE, kind |-> "none", cause |-> ErrNone]

InitFile ==
    /\ \/ /\ flPc = "header"
          /\ flStrict \in BOOLEAN
          /\ \E data \in FileInputs : flSource = [data |-> data, pos |-> 0]
          /\ flFile = NoFile
       \/ /\ flPc = "encode"
          /\ flStrict = FALSE
          /\ flSource = [data |-> <<>>, pos |-> 0]
          /\ flFile \in ProducerFiles
    /\ flI = 0
    /\ flSawMidiTrack = FALSE
    /\ flSawNonMidiTrack = ErrNone
    /\ flChunks = <<>>
    /\ flResult = NoParseResult
    /\ flEncoded = NotYet
    /\ IdleVarint /\ IdleParser /\ IdleCodec /\ IdlePresent /\ IdleWalk /\ IdleLimit /\ IdleContext /\ IdleBody

\* the variables of parse as one record, and their next values
ParseState ==
    [pc |-> flPc, file |-> flFile, i |-> flI, sawMidiTrack |-> flSawMidiTrack,
     sawNonMidiTrack |-> flSawNonMidiTrack, result |-> flResult, u |-> flSource]

ParseBecomes(st) ==
    /\ flPc' = st.pc
    /\ flFile' = st.file
    /\ flI' = st.i
    /\ flSawMidiTrack' = st.sawMidiTrack
    /\ flSawNonMidiTrack' = st.sawNonMidiTrack
    /\ flResult' = st.result
    /\ flSource' = st.u

\* parse up to its loop: parseHeader
ParseHeader ==
    /\ flPc = "header"
    /\ LET h == parseHeader(flSource)
       IN  IF h.err # ErrNone
           THEN ParseBecomes(ParseFailed(ParseState, ErrHeader, h.err, h.u))
           ELSE ParseBecomes([ParseState EXCEPT
                    !.pc = "tracks", !.file = [Header |-> h.hdr, Tracks |-> <<>>],
                    !.u = h.u])
    /\ UNCHANGED <<flStrict, flChunks, flEncoded>>
    /\ UNCHANGED <<varsVarint, varsParser, varsCodec, varsPresent, varsWalk, varsLimit, varsContext, varsBody>>

\* the history record of a call of parseTrack on the source u
ChunkRecord(u, t) ==
    [start |-> u.pos, end |-> t.u.pos, wasMidiTrack |-> t.wasMidiTrack, err |-> t.err]

\* one iteration of the loop of parse, parseTrack having returned t
ParseChunkReturning(t) ==
    /\ ParseBecomes(parseIteration(ParseState, flStrict, t))
    /\ flChunks' = Append(flChunks, ChunkRecord(flSource, t))

\* one iteration of the loop of parse: parseTrack and what parse does with it
ParseChunk ==
    /\ flPc = "tracks"
    /\ flI < flFile.Header.NumberOfTracks
    /\ ParseChunkReturning(parseTrack(flSource))
    /\ UNCHANGED <<flStrict, flEncoded>>
    /\ UNCHANGED <<varsVarint, varsParser, varsCodec, varsPresent, varsWalk, varsLimit, varsContext, varsBody>>

\* parse after its loop: the File, or "no MIDI tracks found"
ParseReturn ==
    /\ flPc = "tracks"
    /\ flI >= flFile.Header.NumberOfTracks
    /\ ParseBecomes(parseAfterLoop(ParseState))
    /\ UNCHANGED <<flStrict, flChunks, flEncoded>>
    /\ UNCHANGED <<varsVarint, varsParser, varsCodec, varsPresent, varsWalk, varsLimit, varsContext, varsBody>>

\* File.encode of the File parse returned, or of the producer's File
EncodeFile ==
    /\ flPc \in {"parsed", "encode"}
    /\ flEncoded' = FileEncode(flFile)
    /\ flPc' = "done"
    /\ UNCHANGED <<flStrict, flSource, flFile, flI, flSawMidiTrack,
                   flSawNonMidiTrack, flChunks, flResult>>
    /\ UNCHANGED <<varsVarint, varsParser, varsCodec, varsPresent, varsWalk, varsLimit, varsContext, varsBody>>

NextFile == ParseHeader \/ ParseChunk \/ ParseReturn \/ EncodeFile

SpecFile == InitFile /\ [][NextFile]_vars

-----------------------------------------------------------------------------
\* parse has returned, with the File or with an error
ParseReturned == flPc \in {"parsed", "failed"} \/ (flPc = "done" /\ flResult.ok)

\* the k-th call of parseTrack found a whole 4-byte tag, and the tag it found
TagRead(k) == flChunks[k].start + 4 <= Len(flSource.data)
TagAt(k) == SubSeq(flSource.data, flChunks[k].start + 1, flChunks[k].start + 4)

\* the length the chunk of the k-th call declares, when its 4 bytes are there
LengthRead(k) == flChunks[k].start + 8 <= Len(flSource.data)
LengthAt(k) == BE32(SubSeq(flSource.data, flChunks[k].start + 5, flChunks[k].start + 8))

\* the calls of parseTrack that read an MTrk chunk
MidiChunks == { k \in 1..Len(flChunks) : flChunks[k].wasMidiTrack }

\* C14: unknown chunks: when a chunk tag read after the header is not MTrk,
\* parse in strict mode fails immediately; in tolerant mode it skips exactly the
\* chunk's declared length, adds no Track for it and continues with the next
\* chunk, the skipped chunk counting as one of the track_count chunks read (so
\* the Tracks of a File are as many as the MTrk chunks among the track_count
\* chunks read).
UnknownChunks ==
    /\ flPc \in {"tracks", "parsed"} =>
           /\ Len(flChunks) <= flFile.Header.NumberOfTracks
           /\ flI = Len(flChunks)
           /\ Len(flFile.Tracks) = Cardinality(MidiChunks)
    /\ \A k \in 1..Len(flChunks) :
           (TagRead(k) /\ TagAt(k) # TagMTrk) =>
               /\ ~flChunks[k].wasMidiTrack
               /\ IF flStrict
                  THEN /\ flPc = "failed" /\ k = Len(flChunks)
                       /\ flFile = NoFile
                       /\ flResult = ParseError(ErrNonMidiTrack, flChunks[k].err)
                  ELSE /\ flResult.kind # ErrNonMidiTrack
                       /\ (LengthRead(k) /\ flChunks[k].start + 8 + LengthAt(k)
                                               <= Len(flSource.data)) =>
                              flChunks[k].end = flChunks[k].start + 8 + LengthAt(k)
                       /\ k < Len(flChunks) => flChunks[k + 1].start = flChunks[k].end

\* tolerant parse of a header announcing 2 tracks, a 3-byte chunk of an unknown
\* kind and an MTrk chunk has returned a File with one track
UnknownChunksWitness ==
    /\ flPc = "parsed" /\ ~flStrict /\ flResult.ok
    /\ flFile.Header.NumberOfTracks = 2
    /\ Len(flChunks) = 2
    /\ TagAt(1) = TagOther /\ LengthAt(1) = 3
    /\ flChunks[1].end = flChunks[1].start + 11
    /\ flChunks[2].wasMidiTrack
    /\ Len(flFile.Tracks) = 1 /\ Len(flFile.Tracks[1]) = 1
    /\ flSource.pos = Len(flSource.data)

\* no File and an error that carries the first error of a chunk that was no MTrk
NoMidiTracksError ==
    /\ ~flResult.ok
    /\ flFile = NoFile
    /\ flResult.kind \in {ErrNoMidiTracks, ErrNonMidiTrack}
    /\ flResult.cause = (IF Len(flChunks) > 0 THEN flChunks[1].err ELSE ErrNone)

\* C15 as stated: parse returns an error and no File whenever none of the
\* track_count chunks read after the header was an MTrk chunk (track_count = 0
\* included), the error carrying the first unknown-chunk error seen; and once
\* at least one MTrk was read and no MTrk failed, parse returns a File.
NoMidiTracksAnyMode ==
    (ParseReturned /\ flResult.kind # ErrHeader) =>
        /\ MidiChunks = {} => NoMidiTracksError
        /\ (MidiChunks # {} /\ \A k \in MidiChunks : flChunks[k].err = ErrNone) =>
               (flResult.ok /\ flFile # NoFile)

\* C15: the same, the File being returned once an MTrk was read and none
\* failed in tolerant mode, and in strict mode only when every chunk read was
\* an MTrk chunk.
NoMidiTracks ==
    (ParseReturned /\ flResult.kind # ErrHeader) =>
        /\ MidiChunks = {} => NoMidiTracksError
        /\ (/\ MidiChunks # {}
            /\ \A k \in MidiChunks : flChunks[k].err = ErrNone
            /\ flStrict => MidiChunks = 1..Len(flChunks)) =>
               (flResult.ok /\ flFile # NoFile)

\* tolerant parse has met two chunks of unknown kinds and no MTrk chunk
NoMidiTracksWitness ==
    /\ flPc = "failed" /\ ~flStrict
    /\ Len(flChunks) = 2 /\ MidiChunks = {}
    /\ TagRead(1) /\ TagRead(2)
    /\ flResult = ParseError(ErrNoMidiTracks, ErrLiteralOther)

\* C16: track errors propagate: in strict and in tolerant mode, an error
\* raised while reading the length, parsing the body or presenting the events
\* of a chunk whose tag is MTrk makes parse fail with no File; such a chunk is
\* never treated as a skipped chunk.
TrackErrorsPropagate ==
    \A k \in 1..Len(flChunks) :
        (TagRead(k) /\ TagAt(k) = TagMTrk) =>
            /\ flChunks[k].wasMidiTrack
            /\ flChunks[k].err # ErrNone =>
                   /\ flPc = "failed" /\ k = Len(flChunks)
                   /\ flFile = NoFile
                   /\ flResult = ParseError(ErrParsingTrack, flChunks[k].err)

\* tolerant parse has read one MTrk chunk and failed in the body of the next
TrackErrorsPropagateWitness ==
    /\ flPc = "failed" /\ ~flStrict
    /\ Len(flChunks) = 2
    /\ flChunks[1].wasMidiTrack /\ flChunks[1].err = ErrNone
    /\ TagAt(2) = TagMTrk /\ flChunks[2].err = ErrTrackBody

RECURSIVE ChunksFrom(_, _)
\* the chunks in the bytes from position pos on, by their tags and lengths
ChunksFrom(bytes, pos) ==
    IF pos + 8 > Len(bytes) THEN 0
    ELSE 1 + ChunksFrom(bytes, pos + 8 + BE32(SubSeq(bytes, pos + 5, pos + 8)))

\* C17: on write, track_count equals the Tracks length: in the bytes File.encode
\* produces, the track_count field of the header equals the number of MTrk
\* chunks that follow it, for every File (one returned by a tolerant parse that
\* skipped unknown chunks included).
TrackCountWritten ==
    (flPc = "done" /\ flEncoded.ok) =>
        BE16(SubSeq(flEncoded.bytes, 11, 12)) = ChunksFrom(flEncoded.bytes, 14)

-----------------------------------------------------------------------------
\* the bytes the claim gives for a MIDI event: status byte (kind | channel),
\* then RawData when present, else key and velocity for NoteOn and NoteOff;
\* <<>> for an event it says cannot be encoded
MidiWire(e) ==
    IF ~e.RawNil THEN <<e.Type + e.Channel>> \o e.RawData
    ELSE IF e.Type \in {NoteOn, NoteOff} THEN <<e.Type + e.Channel, e.Key, e.Velocity>>
    ELSE <<>>

\* the MIDI events without RawData of a kind other than NoteOn and NoteOff
Unencodable(e) == e.kind = "Midi" /\ e.RawNil /\ e.Type \notin {NoteOn, NoteOff}

RECURSIVE DelayBefore(_, _)
\* the sum of the TimeDelta events that end at event n of the list
DelayBefore(evts, n) ==
    IF n = 0 \/ evts[n].kind # "TimeDelta" THEN U64Zero
    ELSE U64Add(DelayBefore(evts, n - 1), evts[n].ticks)

RECURSIVE WireBody(_, _)
\* the track body the first n events of the list stand for
WireBody(evts, n) ==
    IF n = 0 THEN <<>>
    ELSE IF evts[n].kind = "TimeDelta" THEN WireBody(evts, n - 1)
    ELSE WireBody(evts, n - 1) \o encodeVarint(DelayBefore(evts, n - 1))
             \o (IF evts[n].kind = "Midi" THEN MidiWire(evts[n])
                 ELSE EncodeMIDI(evts[n]).bytes)

RECURSIVE WireChunksOf(_, _)
\* the MTrk chunks the first n tracks stand for
WireChunksOf(tracks, n) ==
    IF n = 0 THEN <<>>
    ELSE WireChunksOf(tracks, n - 1)
             \o Chunk(TagMTrk, WireBody(tracks[n], Len(tracks[n])))

\* C20: Midi encoding: a MIDI event is written as the byte (kind | channel)
\* followed by RawData when RawData is present, else by key and velocity for
\* NoteOn and NoteOff; every other kind without RawData fails to encode, and
\* when an event of a track fails, encodeEvents and File.encode return an error
\* and no bytes.
MidiEncoding ==
    flPc = "done" =>
        IF \E i \in 1..Len(flFile.Tracks) :
               \E k \in 1..Len(flFile.Tracks[i]) : Unencodable(flFile.Tracks[i][k])
        THEN /\ flEncoded = [ok |-> FALSE, bytes |-> <<>>]
             /\ \A i \in 1..Len(flFile.Tracks) :
                    (\E k \in 1..Len(flFile.Tracks[i]) : Unencodable(flFile.Tracks[i][k]))
                        => encodeEvents(flFile.Tracks[i]) = [ok |-> FALSE, bytes |-> <<>>]
        ELSE /\ flEncoded.ok
             /\ flEncoded.bytes =
                    HeaderEncode(flFile.Header)
                        \o WireChunksOf(flFile.Tracks, Len(flFile.Tracks))

\* File.encode has refused a File whose first track encodes and whose second
\* track holds a ProgramChange without RawData after a note
MidiEncodingWitness ==
    /\ flPc = "done"
    /\ flEncoded = [ok |-> FALSE, bytes |-> <<>>]
    /\ Len(flFile.Tracks) = 2
    /\ encodeEvents(flFile.Tracks[1]).ok
    /\ Len(encodeEvents(flFile.Tracks[1]).bytes) > 0
    /\ Len(flFile.Tracks[2]) = 3
    /\ flFile.Tracks[2][2].Type = NoteOn
    /\ Unencodable(flFile.Tracks[2][3])

-----------------------------------------------------------------------------
(***************************************************************************)
(* The context reader: it passes Read through to the reader under it,      *)
(* counts the bytes that came back and keeps the last of them for error    *)
(* messages.                                                               *)
(***************************************************************************)

\* how many of the last bytes read are kept
numberOfContextBytes == 64

\* contextreader.New
NewContextReader == [totalBytesRead |-> 0, lastBytesRead |-> <<>>]

\* a plausible slip: the first bytes kept instead of the last
contextReaderKeepFirst(bytes) ==
    IF Len(bytes) > numberOfContextBytes
    THEN SubSeq(bytes, 1, numberOfContextBytes)
    ELSE bytes

\* the trimming of lastBytesRead at the end of Read
contextReaderKeep(bytes) ==
    IF Len(bytes) > numberOfContextBytes
    THEN SubSeq(bytes, Len(bytes) - numberOfContextBytes + 1, Len(bytes))
    ELSE bytes

\* ContextReader.Read(buf) with len(buf) = bufLen, the underlying Read
\* returning n bytes: [n, err, bytes, r, u, under]
contextReaderRead(r, u, bufLen, n) ==
    LET res == UnderlyingRead(u, bufLen, n)
        appended == IF res.n > 0 THEN r.lastBytesRead \o res.bytes
                    ELSE r.lastBytesRead
    IN  [n |-> res.n, err |-> res.err, bytes |-> res.bytes,
         r |-> [totalBytesRead |-> r.totalBytesRead + res.n,
                lastBytesRead |-> contextReaderKeep(appended)],
         u |-> res.u,
         under |-> [n |-> res.n, err |-> res.err]]

\* the length of the data under the context reader: more than it keeps
ContextDataLen == 70

\* the data under the context reader: none, and bytes that all differ
ContextData == { <<>>, [i \in 1..ContextDataLen |-> i] }

\* the buffer lengths of the Read calls
ContextBufferLengths == {0, 1, 40, 100}

\* the most Read calls
MaxContextReads == 4

InitContext ==
    /\ \E data \in ContextData : crUnder = [data |-> data, pos |-> 0]
    /\ crReader = NewContextReader
    /\ crLast = <<>>
    /\ crReads = 0
    /\ IdleVarint /\ IdleParser /\ IdleCodec /\ IdlePresent /\ IdleWalk /\ IdleLimit /\ IdleFile /\ IdleBody

\* one Read on the context reader
ContextRead(bufLen, n) ==
    /\ crReads < MaxContextReads
    /\ LET res == contextReaderRead(crReader, crUnder, bufLen, n)
       IN  /\ crReader' = res.r
           /\ crUnder' = res.u
           /\ crLast' = [bufLen |-> bufLen, n |-> res.n, err |-> res.err,
                         under |-> res.under, posBefore |-> crUnder.pos]
           /\ crReads' = crReads + 1
    /\ UNCHANGED <<varsVarint, varsParser, varsCodec, varsPresent, varsWalk, varsLimit, varsFile, varsBody>>

NextContext ==
    \E bufLen \in ContextBufferLengths :
        \E n \in UnderlyingCounts(crUnder, bufLen) : ContextRead(bufLen, n)

SpecContext == InitContext /\ [][NextContext]_vars

\* the bytes the underlying reader has handed out so far
ContextConsumed == SubSeq(crUnder.data, 1, crUnder.pos)

\* C21: after any sequence of Read calls the context reader's count is the
\* number of bytes the underlying reader returned, lastBytesRead is the last
\* min(64, count) of those bytes in order, and each Read returned the
\* underlying Read's count and error
ContextWindow ==
    LET total == crReader.totalBytesRead
        kept == IF total < numberOfContextBytes THEN total ELSE numberOfContextBytes
    IN  /\ total = crUnder.pos
        /\ Len(crReader.lastBytesRead) = kept
        /\ crReader.lastBytesRead
               = SubSeq(ContextConsumed, Len(ContextConsumed) - kept + 1, Len(ContextConsumed))
        /\ crLast # <<>> =>
               /\ crLast.n = crLast.under.n
               /\ crLast.err = crLast.under.err
               /\ crLast.n = crUnder.pos - crLast.posBefore

\* more than 64 bytes were read, over several Reads, the last returning bytes
ContextWindowWitness ==
    /\ crReader.totalBytesRead > numberOfContextBytes
    /\ crReads >= 2
    /\ crLast.n > 0
    /\ crLast.posBefore > 0

-----------------------------------------------------------------------------
(* The parser's steps in wantEvent, one fed byte at a time.                *)

\* a byte has just been handed to feedByte
ByteFed == Len(fed') = Len(fed) + 1

\* that byte
FedByte == fed'[Len(fed')]

\* C22: in wantEvent with a running status of high nibble 0x8..0xE a data
\* byte is appended to eventData; the raw MIDI event (running status,
\* eventData) is emitted and the end of an event signalled exactly on the byte
\* that brings eventData to the payload length (1 for 0xC and 0xD, 2 for the
\* others), eventData being empty afterwards; a status byte never signals the
\* end of an event
ChannelVoiceCompletion ==
    [][(ByteFed /\ parser.state = wantEvent) =>
          LET nibble == HighNibble(parser.runningStatus)
              need == IF nibble \in {12, 13} THEN 1 ELSE 2
              data == Append(parser.eventData, FedByte)
          IN  /\ (~HighBit(FedByte) /\ nibble \in 8..14) =>
                     IF Len(data) = need
                     THEN /\ feedResult' = [done |-> TRUE, err |-> ErrNone]
                          /\ parser'.events = Append(parser.events,
                                 RawEvent(midiEvent, parser.runningStatus, data))
                          /\ parser'.eventData = <<>>
                     ELSE /\ ~feedResult'.done
                          /\ parser'.events = parser.events
                          /\ parser'.eventData = data
              /\ HighBit(FedByte) =>
                     /\ ~feedResult'.done
                     /\ parser'.events = parser.events
      ]_vars

\* a one-byte payload was completed, and after it a two-byte payload
ChannelVoiceCompletionWitness ==
    /\ feedResult.done
    /\ Len(parser.events) >= 2
    /\ LET e == parser.events[Len(parser.events)]
           f == parser.events[Len(parser.events) - 1]
       IN  /\ e.kind = midiEvent /\ f.kind = midiEvent
           /\ Len(e.data) = 2 /\ e.typeByte = 144
           /\ Len(f.data) = 1 /\ f.typeByte = 193

\* C23: in wantEvent a status byte other than 0xFF, 0xF0 and 0xF7 fed while
\* eventData is not empty is refused, and running status, eventData, state,
\* bytesFed and the emitted events stay as they were; with eventData empty
\* the byte becomes the running status and the state stays wantEvent
RunningStatusInterrupted ==
    [][(/\ ByteFed /\ parser.state = wantEvent
        /\ HighBit(FedByte) /\ FedByte \notin {255, 240, 247}) =>
          IF Len(parser.eventData) > 0
          THEN /\ feedResult'.err # ErrNone
               /\ parser'.runningStatus = parser.runningStatus
               /\ parser'.eventData = parser.eventData
               /\ parser'.state = parser.state
               /\ parser'.bytesFed = parser.bytesFed
               /\ parser'.events = parser.events
          ELSE /\ feedResult'.err = ErrNone
               /\ parser'.runningStatus = FedByte
               /\ parser'.state = wantEvent
      ]_vars

\* a status byte was refused in the middle of an event, after an event had
\* been emitted
RunningStatusInterruptedWitness ==
    /\ feedResult.err = ErrStatusChanged
    /\ Len(parser.eventData) = 1
    /\ Len(parser.events) = 1
    /\ parser.bytesFed = Len(fed) - 1

\* C24: in wantEvent a data byte fed while the running status has a high
\* nibble outside 0x8..0xE (the initial 0, 0xF1..0xF6, 0xF8..0xFE) is
\* refused: no event is emitted and nothing is appended to eventData
UnknownRunningStatus ==
    [][(/\ ByteFed /\ parser.state = wantEvent
        /\ ~HighBit(FedByte)
        /\ HighNibble(parser.runningStatus) \notin 8..14) =>
          /\ feedResult'.err # ErrNone
          /\ ~feedResult'.done
          /\ parser'.events = parser.events
          /\ parser'.eventData = parser.eventData
      ]_vars

\* a data byte was refused under the status byte 0xF1, and the first byte of
\* the input was a data byte
UnknownRunningStatusWitness ==
    /\ feedResult.err = ErrNoSpec
    /\ parser.runningStatus = 241
    /\ fed[1] = 60
    /\ Len(fed) >= 3
    /\ parser.bytesFed = 1

\* the length accumulated once the fed byte has been absorbed
LengthAfter(length) == BitOr(128 * length, Low7(FedByte))

\* C25: in wantMetaLength and wantSysexLength a byte with the high bit set
\* only adds a septet to the length: no event is emitted, the end of an event
\* is not signalled and the length state is not left; an event with empty
\* data is emitted only by the byte with the high bit clear that completes
\* the length, when the length is then 0
LengthPrefixCompletion ==
    [][(ByteFed /\ parser.state \in {wantMetaLength, wantSysexLength}) =>
          LET length == IF parser.state = wantMetaLength
                        THEN LengthAfter(parser.metaLength)
                        ELSE LengthAfter(parser.sysexLength)
          IN  IF HighBit(FedByte)
              THEN /\ ~feedResult'.done
                   /\ parser'.events = parser.events
                   /\ parser'.state = parser.state
              ELSE /\ feedResult'.done <=> length = 0
                   /\ Len(parser'.events) > Len(parser.events) <=> length = 0
      ]_vars

\* the payload buffer, the length and the event of a length-prefixed payload
\* being read by parser p, in wantMetaData or wantSysexData
PayloadOf(p) ==
    IF p.state = wantMetaData
    THEN [buffer |-> p.eventData, length |-> p.metaLength,
          kind |-> metaEvent, typeByte |-> p.metaEventType]
    ELSE [buffer |-> p.sysexData, length |-> p.sysexLength,
          kind |-> sysexEvent, typeByte |-> p.currentSysexType]

\* C26: once the length L > 0 of a Meta or Sysex event is complete, the next
\* L bytes fed are stored unchanged and in order as the event's data whatever
\* their values; the event is emitted with the recorded type or framing byte
\* and the end of an event signalled exactly on the L-th byte, the parser
\* then being in wantEvent with the payload buffer empty
OpaquePayload ==
    [][ByteFed =>
          /\ (/\ parser.state \notin {wantMetaData, wantSysexData}
              /\ parser'.state \in {wantMetaData, wantSysexData}) =>
                 /\ PayloadOf(parser').buffer = <<>>
                 /\ PayloadOf(parser').length > 0
          /\ parser.state \in {wantMetaData, wantSysexData} =>
                 LET pl == PayloadOf(parser)
                     data == Append(pl.buffer, FedByte)
                 IN  /\ feedResult'.err = ErrNone
                     /\ IF Len(data) = pl.length
                        THEN /\ feedResult'.done
                             /\ parser'.events = Append(parser.events,
                                    RawEvent(pl.kind, pl.typeByte, data))
                             /\ parser'.state = wantEvent
                             /\ parser'.eventData = IF pl.kind = metaEvent THEN <<>>
                                                    ELSE parser.eventData
                             /\ parser'.sysexData = IF pl.kind = sysexEvent THEN <<>>
                                                    ELSE parser.sysexData
                        ELSE /\ Len(data) < pl.length
                             /\ ~feedResult'.done
                             /\ parser'.events = parser.events
                             /\ parser'.state = parser.state
                             /\ PayloadOf(parser').buffer = data
      ]_vars

\* a Sysex event came out whose two payload bytes are the Meta introducer and
\* the Sysex terminator
OpaquePayloadWitness ==
    /\ feedResult.done
    /\ parser.state = wantEvent
    /\ Len(parser.events) = 1
    /\ parser.events[1] = RawEvent(sysexEvent, 240, <<255, 247>>)

-----------------------------------------------------------------------------
(***************************************************************************)
(* One track body handed to parseTrackBody: the body is a sequence of      *)
(* time-deltas and events, whole or with its last byte missing.            *)
(***************************************************************************)

\* the time-deltas of the bodies, as bytes and as the ticks they stand for:
\* zero, one and two bytes, and a zero of two bytes
BodyDeltas ==
    { [bytes |-> <<0>>, ticks |-> 0],
      [bytes |-> <<10>>, ticks |-> 10],
      [bytes |-> <<128, 0>>, ticks |-> 0],
      [bytes |-> <<129, 72>>, ticks |-> 200] }

\* the events of the bodies, as bytes: channel-voice events of both payload
\* lengths, one under running status, a Meta and a Sysex event, and a NoteOn
\* whose first data byte is followed by an empty Sysex event
BodyEvents ==
    { <<144, 60, 127>>, <<193, 5>>, <<60, 127>>, <<255, 47, 0>>,
      <<240, 2, 65, 247>>, <<144, 60, 240, 0>> }

BodyChunks == { [delta |-> d, event |-> e] : d \in BodyDeltas, e \in BodyEvents }

\* the most events in a body
MaxBodyChunks == 2

\* how many bytes may be missing at the end of a body
BodyCuts == {0, 1}

RECURSIVE BodyBytes(_, _)
\* the bytes of the first n chunks
BodyBytes(chunks, n) ==
    IF n = 0 THEN <<>>
    ELSE BodyBytes(chunks, n - 1) \o chunks[n].delta.bytes \o chunks[n].event

InitBody ==
    /\ tbChunks \in SeqsUpTo(BodyChunks, MaxBodyChunks)
    /\ tbCut \in BodyCuts
    /\ LET whole == BodyBytes(tbChunks, Len(tbChunks))
       IN  /\ tbCut <= Len(whole)
           /\ tbBody = SubSeq(whole, 1, Len(whole) - tbCut)
    /\ tbResult = <<>>
    /\ tbPc = "parse"
    /\ IdleVarint /\ IdleParser /\ IdleCodec /\ IdlePresent /\ IdleWalk /\ IdleLimit /\ IdleFile /\ IdleContext

\* parseTrackBody(r), r giving the body's bytes
BodyParse ==
    /\ tbPc = "parse"
    /\ tbResult' = parseTrackBody(tbBody)
    /\ tbPc' = "returned"
    /\ UNCHANGED <<tbChunks, tbCut, tbBody>>
    /\ UNCHANGED <<varsVarint, varsParser, varsCodec, varsPresent, varsWalk, varsLimit, varsFile, varsContext>>

NextBody == BodyParse

SpecBody == InitBody /\ [][NextBody]_vars

\* parseTrackBody returned a list of events
BodyReturned == tbPc = "returned" /\ tbResult.ok

\* each event of a list reduced to whether it is a TimeDelta, and its ticks
DeltaShape(evts) ==
    [i \in 1..Len(evts) |->
        IF evts[i].kind = timeDeltaEvent
        THEN [delta |-> TRUE, ticks |-> evts[i].timeDelta]
        ELSE [delta |-> FALSE, ticks |-> U64Zero]]

RECURSIVE ChunkShape(_, _)
\* what the first n chunks of a body stand for: a TimeDelta before the event
\* of every chunk whose time-delta is not zero
ChunkShape(chunks, n) ==
    IF n = 0 THEN <<>>
    ELSE ChunkShape(chunks, n - 1)
             \o (IF chunks[n].delta.ticks # 0
                 THEN <<[delta |-> TRUE, ticks |-> U64FromNat(chunks[n].delta.ticks)]>>
                 ELSE <<>>)
             \o <<[delta |-> FALSE, ticks |-> U64Zero]>>

\* every event of the body begins with its own status byte or introducer, so
\* that each chunk is one event whatever came before it
SelfDelimited ==
    /\ tbCut = 0
    /\ \A k \in 1..Len(tbChunks) : HighBit(tbChunks[k].event[1])

\* C27: parseTrackBody emits a TimeDelta carrying the decoded time-delta
\* immediately before an event if and only if that time-delta is not zero;
\* in every list it returns each TimeDelta is above zero and is immediately
\* followed by an event that is no TimeDelta
TimeDeltaEmission ==
    BodyReturned =>
        /\ \A i \in 1..Len(tbResult.events) :
               tbResult.events[i].kind = timeDeltaEvent =>
                   /\ ~U64IsZero(tbResult.events[i].timeDelta)
                   /\ i < Len(tbResult.events)
                   /\ tbResult.events[i + 1].kind # timeDeltaEvent
        /\ SelfDelimited =>
               DeltaShape(tbResult.events) = ChunkShape(tbChunks, Len(tbChunks))

\* a body of two events was parsed, the first after a zero time-delta of two
\* bytes and the second after 200 ticks
TimeDeltaEmissionWitness ==
    /\ BodyReturned
    /\ SelfDelimited
    /\ Len(tbChunks) = 2
    /\ tbChunks[1].delta.bytes = <<128, 0>>
    /\ tbChunks[2].delta.ticks = 200
    /\ Len(tbResult.events) = 3
    /\ tbResult.events[2].timeDelta = U64FromNat(200)

\* C28: whenever parseTrackBody returns a list, the parser is in wantEvent
\* with no event data and no Sysex data left over, as finish() demands: a body
\* that ends while an event is incomplete is rejected
EndOfTrackCheck ==
    BodyReturned =>
        /\ finish(tbResult.p) = "ok"
        /\ tbResult.p.state = wantEvent
        /\ tbResult.p.eventData = <<>>
        /\ tbResult.p.sysexData = <<>>

-----------------------------------------------------------------------------
(* The encoder's handling of TimeDelta events.                             *)

RECURSIVE WithoutTrailingDeltas(_)
\* an event list up to its last event that is no TimeDelta
WithoutTrailingDeltas(evts) ==
    IF Len(evts) = 0 \/ evts[Len(evts)].kind # "TimeDelta" THEN evts
    ELSE WithoutTrailingDeltas(SubSeq(evts, 1, Len(evts) - 1))

\* the bytes encodeEvents gave for evts are those of its events that are no
\* TimeDelta, each after the VLQ of the TimeDeltas summed since the one before,
\* and they are the bytes of the list without its trailing TimeDeltas
Coalesced(evts, encoded) ==
    encoded.ok =>
        /\ encoded.bytes = WireBody(evts, Len(evts))
        /\ encoded = encodeEvents(WithoutTrailingDeltas(evts))

\* C29: the output of encodeEvents is, for each event that is no TimeDelta in
\* order, the VLQ of the sum of the TimeDeltas since the previous such event
\* (0 if none) followed by the event's bytes; TimeDeltas after the last such
\* event contribute nothing, and no EndOfTrack is appended
DelayCoalescing ==
    /\ (cdFlow = "write-read" /\ cdPc # "encode") => Coalesced(cdTrack, cdBody)
    /\ cdPc = "done" /\ cdParsed.ok => Coalesced(cdParsed.events, cdReenc)

\* two TimeDeltas before a note were written as the VLQ of their sum, 210
DelayCoalescingWitness ==
    /\ cdFlow = "write-read" /\ cdPc # "encode"
    /\ Len(cdTrack) = 3
    /\ cdTrack[1] = TimeDeltaEvent(U64FromNat(10))
    /\ cdTrack[2] = TimeDeltaEvent(U64FromNat(200))
    /\ cdTrack[3] = ProducedNote(NoteOn, 0, 60, 127)
    /\ cdBody = Encoded(<<129, 82, 144, 60, 127>>)

-----------------------------------------------------------------------------
(* Input that ends before the chunks the header announces.                 *)

\* the source ended inside chunk k, which was no MTrk chunk: in its tag, in
\* its length or in its body
EndedInside(k) ==
    /\ ~flChunks[k].wasMidiTrack
    /\ \/ ~TagRead(k)
       \/ ~LengthRead(k)
       \/ flChunks[k].start + 8 + LengthAt(k) > Len(flSource.data)

\* C30: when the source ends before track_count chunks have been read
\* completely (while a chunk tag is read, or the length or body of a chunk
\* being skipped), parse in tolerant mode returns an error and no File, even
\* when an MTrk chunk was parsed before
ShortInputRejected ==
    (/\ ParseReturned
     /\ ~flStrict
     /\ \E k \in 1..Len(flChunks) : EndedInside(k)) =>
        /\ ~flResult.ok
        /\ flFile = NoFile

-----------------------------------------------------------------------------
(* The channel-voice payload and the running status over whole inputs.     *)

\* the payload length of a channel-voice status byte, as the format gives it
PayloadLength(status) == IF HighNibble(status) \in {12, 13} THEN 1 ELSE 2

\* C31: after any sequence of fed bytes, failed feeds and interrupting Meta
\* and Sysex events among them, a parser in wantEvent whose running status
\* has a spec holds fewer bytes of eventData than the spec's payload length,
\* and the error "MIDI event already too long" is never returned
PayloadNeverOverflows ==
    /\ feedResult.err # ErrTooLong
    /\ (parser.state = wantEvent /\ HighNibble(parser.runningStatus) \in 8..14) =>
           Len(parser.eventData) < PayloadLength(parser.runningStatus)

\* the first data byte of a NoteOn is waiting for the second after an empty
\* Sysex event came in between and a ProgramChange status byte was refused
PayloadNeverOverflowsWitness ==
    /\ fed = <<144, 60, 240, 0, 193>>
    /\ feedResult.err = ErrStatusChanged
    /\ parser.state = wantEvent
    /\ parser.runningStatus = 144
    /\ parser.eventData = <<60>>
    /\ Len(parser.events) = 1

\* the last event emitted so far is a Meta or a Sysex event
AfterMetaOrSysex ==
    /\ Len(parser.events) > 0
    /\ parser.events[Len(parser.events)].kind \in {metaEvent, sysexEvent}

\* C32: the bytes of a Meta or Sysex event (introducer, type, length, data)
\* leave the running status as it was, and a data byte fed after such an
\* event belongs to a channel-voice event with that status
RunningStatusRetained ==
    [][ByteFed =>
          /\ (parser.state # wantEvent \/ FedByte \in {255, 240, 247}) =>
                 parser'.runningStatus = parser.runningStatus
          /\ (/\ parser.state = wantEvent /\ AfterMetaOrSysex
              /\ ~HighBit(FedByte)
              /\ HighNibble(parser.runningStatus) \in 8..14) =>
                 LET data == Append(parser.eventData, FedByte)
                 IN  /\ feedResult'.err = ErrNone
                     /\ parser'.runningStatus = parser.runningStatus
                     /\ IF Len(data) = PayloadLength(parser.runningStatus)
                        THEN parser'.events = Append(parser.events,
                                 RawEvent(midiEvent, parser.runningStatus, data))
                        ELSE parser'.eventData = data /\ parser'.events = parser.events
      ]_vars

\* a ProgramChange came out under the status byte fed before an empty Sysex
\* event
RunningStatusRetainedWitness ==
    /\ fed = <<193, 240, 0, 60>>
    /\ feedResult = [done |-> TRUE, err |-> ErrNone]
    /\ parser.events = <<RawEvent(sysexEvent, 240, <<>>),
                         RawEvent(midiEvent, 193, <<60>>)>>

-----------------------------------------------------------------------------
(* The bytes parseTrack takes from the source for an MTrk chunk.           *)

\* parseTrack returned a Track for chunk k
TrackParsed(k) == flChunks[k].wasMidiTrack /\ flChunks[k].err = ErrNone

\* C33: when parseTrack succeeds on an MTrk chunk of declared length L it has
\* consumed exactly 4 + 4 + L bytes of the source, tag, length and body, so
\* that the next chunk's tag is read at the byte after the body
ChunkBodyExact ==
    \A k \in 1..Len(flChunks) :
        TrackParsed(k) =>
            /\ flChunks[k].end = flChunks[k].start + 8 + LengthAt(k)
            /\ k < Len(flChunks) =>
                   flChunks[k + 1].start = flChunks[k].start + 8 + LengthAt(k)

=============================================================================
